---------------------------- MODULE Spec2Model ----------------------------
(***************************************************************************)
(* A model of src/src/load/load_rpg.py: the readers of RPG HATPRO binary   *)
(* files (class load) and the codecs they share.                           *)
(*                                                                         *)
(* A reader is a straight-line header, a `for i in range(n)' sample loop   *)
(* and a return statement.  Every statement of a reader is one instruction *)
(* of its table (read_lwp, read_brt, ...), and one step of the model runs  *)
(* one instruction against the byte buffer `buf' at the file position      *)
(* `off'.                                                                  *)
(*                                                                         *)
(* Numbers.  A 4-byte little-endian word is decoded to an integer by       *)
(* unpack_I / unpack_i.  A float ('<f') is kept as the integer of its      *)
(* IEEE-754 bit pattern: the readers only store floats or hand them to a   *)
(* codec.  The arithmetic of the angle codec is modelled on decimal fixed  *)
(* point: an angle argument is a whole number of tenths of a degree, a     *)
(* zenith is in tenths, an azimuth is in units of 0.0001 degree.           *)
(***************************************************************************)
EXTENDS Integers, Sequences, FiniteSets, TLC

VARIABLES
    fmt,    \* the reader that is running ("LWP", ..., "none")
    buf,    \* the bytes of the file
    off,    \* the file position: bytes consumed so far
    pc,     \* "header" | "loop" | "body" | "return" | "done" | "failed" | "idle"
    ip,     \* index of the next instruction in the header or the loop body
    i,      \* the loop variable of `for i in range(n)'
    hdr,    \* the scalar local variables read so far (name -> value)
    ds,     \* the list and array local variables (name -> value)
    err,    \* the exception that ended the call, with the offset of its read
    short,  \* <<offset>> of the first read that got fewer bytes than it asked for
    call    \* a call of a codec on its own: [fn, arg, pc, ret]

vars == <<fmt, buf, off, pc, ip, i, hdr, ds, err, short, call>>

decodeVars == <<fmt, buf, off, pc, ip, i, hdr, ds, err, short>>

-----------------------------------------------------------------------------
(* Bounds of the model. *)

\* largest sample count n of a generated header
MaxN == 2
\* largest axis count (frequencies, altitudes, angles) of a generated header
MaxAxis == 2
\* a generated file is cut to at most MaxHead bytes, or to at most MaxCut
\* bytes before the end of its header or of one of its samples, or holds up
\* to MaxExtra bytes more than its header and samples take
MaxHead == 9
MaxCut == 5
MaxExtra == 1
\* width, in tenths of a degree, of each window of encoded angles tried
AngSpan == 40

-----------------------------------------------------------------------------
(* Bytes and words. *)

Min(a, b) == IF a < b THEN a ELSE b

Max(a, b) == IF a > b THEN a ELSE b

Abs(x) == IF x < 0 THEN -x ELSE x

\* struct.unpack('<I', b): the unsigned value of 4 little-endian bytes
unpack_I(b) == b[1] + 256 * b[2] + 65536 * b[3] + 16777216 * b[4]

\* struct.unpack('<i', b): the two's-complement value of 4 little-endian bytes
unpack_i(b) ==
    b[1] + 256 * b[2] + 65536 * b[3]
      + 16777216 * (IF b[4] >= 128 THEN b[4] - 256 ELSE b[4])

\* struct.unpack('<f', b): the float, kept as its bit pattern
unpack_f(b) == unpack_I(b)

\* struct.unpack('<b', b): a signed byte
unpack_b(b) == IF b[1] >= 128 THEN b[1] - 256 ELSE b[1]

\* '{:08b}'.format(x): the 8 binary digits of a byte, most significant first
bin8(x) == [k \in 1..8 |-> (x \div (2 ^ (8 - k))) % 2]

\* int(s, 2) of a string of binary digits
int2(s) == IF Len(s) = 1 THEN s[1] ELSE 2 * s[1] + s[2]

-----------------------------------------------------------------------------
(* F0: ang_to_zen_azm.  `ang' is in tenths of a degree; the result is      *)
(* <<zen, azm>> with zen in tenths and azm in units of 0.0001 degree, so   *)
(* that ang / 1000.0 is the integer ang read in units of 0.0001.           *)

RECURSIVE Digits(_)
Digits(x) == IF x < 10 THEN 1 ELSE 1 + Digits(x \div 10)

\* round x / q to the nearest integer, ties to even
RoundHalfEven(x, q) ==
    LET d == x \div q
        r == x % q
    IN  IF 2 * r < q THEN d
        ELSE IF 2 * r > q THEN d + 1
        ELSE IF d % 2 = 0 THEN d ELSE d + 1

\* float('{0:.4g}'.format(x)): x >= 0 kept to 4 significant decimal digits.
\* On an exact decimal tie the code follows the binary expansion of the double;
\* the model rounds a tie to even, and draws no argument that rounds a tie.
format_4g(x) ==
    IF x < 10000 THEN x
    ELSE LET q == 10 ^ (Digits(x) - 4)
         IN  RoundHalfEven(x, q) * q

ang_to_zen_azm_ge(ang) ==
    IF ang >= 10000000
    THEN LET val == ang - 10000000
             azm == format_4g(val)
         IN  <<ang - (10000000 + azm) + 1000, azm>>
    ELSE IF ang < 1000
         THEN <<ang, 0>>
         ELSE LET val == ang \div 1000
                  zen == ang - 1000 * val
              IN  <<zen, ang - zen>>

ang_to_zen_azm_k(ang) ==
    IF ang > 10000000
    THEN LET val == ang - 10000000
             azm == format_4g(val)
         IN  <<ang - (10000000 + azm) + 1000, azm>>
    ELSE IF ang < 1000
         THEN <<ang, 0>>
         ELSE LET val == ang \div 1000
                  zen == ang - 1000 * val
              IN  <<zen, 10000 * val>>

ang_to_zen_azm(ang) ==
    IF ang > 10000000                      \* ang / 1000000.0 > 1
    THEN LET val == ang - 10000000
             azm == format_4g(val)         \* '{0:.4g}'.format(val / 1000.0)
         IN  <<ang - (10000000 + azm) + 1000, azm>>
    ELSE IF ang < 1000                     \* ang < 100.0
         THEN <<ang, 0>>
         ELSE LET val == ang \div 1000     \* math.floor(ang / 100.0)
                  zen == ang - 1000 * val
              IN  <<zen, ang - zen>>       \* azm = (ang - zen) / 1000.0

\* The encoding the comment of ang_to_zen_azm documents, el and az in tenths:
\* Ang = sign(El) * (|El| + 1000 * Az) for -90 <= El < 100, and for El >= 100
\* the value 1000000 is added and El in the formula is El - 100.
AngEncode(el, az) ==
    IF el >= 1000
    THEN 10000000 + (el - 1000) + 1000 * az
    ELSE (IF el < 0 THEN -1 ELSE 1) * (Abs(el) + 1000 * az)

-----------------------------------------------------------------------------
(* F1: convert_lonlat.  The argument (-)DDDMM.mm is a whole number of      *)
(* hundredths of a minute (its value times 100); the result is in units of *)
(* 1/360000 degree (a hundredth of a second of arc), in which degree,      *)
(* minute/60 and second/3600 are whole numbers and the sum is exact.       *)

\* convert_lonlat with the sign of the argument dropped from the result
convert_lonlat_abs(x) ==
    LET data   == Abs(x)
        degree == data \div 10000
        minute == (data - degree * 10000) \div 100
        second == (data - (degree * 10000 + minute * 100)) * 60
    IN  degree * 360000 + minute * 6000 + second

convert_lonlat(x) ==
    LET sign   == IF x < 0 THEN -1 ELSE 1
        data   == Abs(x)
        degree == data \div 10000
        minute == (data - degree * 10000) \div 100
        second == (data - (degree * 10000 + minute * 100)) * 60
    IN  sign * (degree * 360000 + minute * 6000 + second)

-----------------------------------------------------------------------------
(* Python values held by the local variables of a reader.  Each kind is a  *)
(* record with a field name of its own, so that two values of different    *)
(* kinds are unequal.                                                      *)

PyInt(v) == [int |-> v]

\* a float, by its bit pattern
PyFloat(w) == [f32 |-> w]

PyNone == [none |-> 0]

PyBytes(b) == [bytes |-> b]

PyList(e) == [list |-> e]

PyTuple(e) == [tuple |-> e]

\* a 2-D numpy array, by the sequence of its columns
PyArray(cols) == [array |-> cols]

\* t_ref + timedelta(seconds=t), t_ref = 2001-01-01 00:00:00, by the whole
\* days after t_ref (before it when negative) and the second of that day
PyDatetime(d, sec) == [days |-> d, seconds |-> sec]

\* t = struct.unpack('<ty', b)[0]; t_ref + timedelta(seconds=t).  The word is
\* lo + 16777216 * hi seconds, hi the top byte read as unsigned ('<I') or as
\* two's complement ('<i'), and 16777216 = 194 * 86400 + 15616.
sample_time(ty, b) ==
    LET lo == b[1] + 256 * b[2] + 65536 * b[3]
        hi == IF ty = "i" /\ b[4] >= 128 THEN b[4] - 256 ELSE b[4]
        s  == lo + 15616 * hi
    IN  PyDatetime(194 * hi + s \div 86400, s % 86400)

IsList(x) == "list" \in DOMAIN x

IsTuple(x) == "tuple" \in DOMAIN x

IsArray(x) == "array" \in DOMAIN x

\* the elements of a list or tuple; the 1-D array numpy makes of it
Elems(x) == IF IsList(x) THEN x.list ELSE x.tuple

\* np.c_[tmp] of a 1-D sequence (or a scalar held as a sequence of one):
\* a 2-D array of one column
np_c1(tmp) == PyArray(<<tmp>>)

\* the columns np.c_ makes of its first argument: a 2-D array keeps its
\* columns, a 1-D list becomes one column
AsColumns(a) == IF IsArray(a) THEN a.array ELSE <<Elems(a)>>

\* np.c_[a, tmp]: the columns of a followed by the column tmp; numpy raises
\* ValueError unless the row counts agree
np_c2_ok(a, tmp) == Len(AsColumns(a)[1]) = Len(tmp)

np_c2(a, tmp) == PyArray(Append(AsColumns(a), tmp))

-----------------------------------------------------------------------------
(* F2: rainflag, and the bit fields of the HKD sample record. *)

\* rainflag with the quality level taken one character to the left
rainflag_q(data) ==
    PyList(<<PyInt(int2(<<data[8]>>)), PyInt(int2(<<data[5], data[6]>>)),
             PyInt(int2(<<data[4], data[5]>>))>>)

\* rainflag(data): data the 8 digits of '{:08b}'; Python's data[k] is data[k+1]
rainflag(data) ==
    PyList(<<PyInt(int2(<<data[8]>>)), PyInt(int2(<<data[6], data[7]>>)),
             PyInt(int2(<<data[4], data[5]>>))>>)

\* the rain bit taken from the last character of the string
blb_rainmode_lsb(tmp) == PyList(<<PyInt(tmp[8]), PyInt(int2(<<tmp[6], tmp[7]>>))>>)

\* read_blb: [int(tmp[0]), int(tmp[5]+tmp[6], 2)]
blb_rainmode(tmp) == PyList(<<PyInt(tmp[1]), PyInt(int2(<<tmp[6], tmp[7]>>))>>)

\* bin(w)[2:].zfill(32)[::-1]: character k (from 0) is bit k of w, least
\* significant first
Bit(w, k) == (w \div (2 ^ k)) % 2

\* tmp[a:a+1] of the reversed string, padded with '0' and read by int(., 2):
\* one character, the bit a
Slice1(w, a) == int2(<<Bit(w, a)>>)

\* the 16 entries appended to hkd_qlt: tmp[0:1], tmp[2:3], ..., tmp[30:31]
hkd_qlt_decode(w) == PyList([k \in 1..16 |-> PyInt(Slice1(w, 2 * (k - 1)))])

\* the positions of the reversed string appended to hkd_sts, in order
StsPos == <<0, 1, 2, 3, 4, 5, 6, 8, 9, 10, 11, 12, 13, 14,
            16, 17, 18, 19, 20, 21, 22, 24, 26, 27, 28, 29, 30>>

hkd_sts_decode(w) == PyList([k \in 1..Len(StsPos) |-> PyInt(Bit(w, StsPos[k]))])

\* convert_lonlat and ang_to_zen_azm applied to a float of the file: the
\* result is kept as the codec applied to the bit pattern
LonLatOf(w) == [lonlat |-> w]

AngOf(w) == [zen_azm |-> w]

-----------------------------------------------------------------------------
(* Instructions.  An instruction is one statement of a reader:             *)
(*   op  what the statement does                                           *)
(*   v   the local variable it assigns or appends to                       *)
(*   ty  the struct format character ("I", "i", "f", "b", "c"), or for     *)
(*       "col" how the column is read ("batch", "loop", "scalar")          *)
(*   a, b, c   the count of a sized read is value(a) + value(b) + c, a and *)
(*       b names of local variables or ""                                  *)

Ins(op, v, ty, a, b, c) == [op |-> op, v |-> v, ty |-> ty, a |-> a, b |-> b, c |-> c]

\* v = struct.unpack('<ty', f.read(4))[0]
Scalar(v, ty) == Ins("scalar", v, ty, "", "", 0)

\* v = struct.unpack('<{count}ty', f.read(4 * count))
Batch(v, ty, a, c) == Ins("batch", v, ty, a, "", c)

\* for vname in range(count): v.append(struct.unpack('<ty', f.read(4))[0])
List(v, ty, a) == Ins("list", v, ty, a, "", 0)

\* t = struct.unpack('<ty', f.read(4))[0]; v.append(t_ref + timedelta(seconds=t))
Time(v, ty) == Ins("time", v, ty, "", "", 0)

\* v.append(self.rainflag('{:08b}'.format(ord(f.read(1)))))
Rf(v) == Ins("rf", v, "B", "", "", 0)

\* v.append(struct.unpack('<ty', f.read(size))[0])
App(v, ty) == Ins("app", v, ty, "", "", 0)

\* v.append(self.ang_to_zen_azm(struct.unpack('<f', f.read(4))[0]))
AppAng(v) == Ins("app_ang", v, "f", "", "", 0)

\* tmp = <count values read as ty>; if i == 0: v = np.c_[tmp]
\* else: v = np.c_[v, tmp]
Col(v, how, ty, a, b, c) == Ins("col", v, how, a, b, c) @@ [ety |-> ty]

\* for vname in range(count): dummy = struct.unpack('<f', f.read(4))[0]
Skip(c) == Ins("skip", "dummy", "f", "", "", c)

\* if v[i] > c: break
Break(v, c) == Ins("break", v, "", "", "", c)

\* a statement of one reader only, named by op
Own(op) == Ins(op, "", "", "", "", 0)

-----------------------------------------------------------------------------
(* The readers.  A reader is                                               *)
(*   init    the local variables assigned [] before the file is opened     *)
(*   header  the statements before the sample loop                         *)
(*   n       the local variable the sample loop ranges over                *)
(*   body    the statements of the sample loop                             *)
(*   ret     the local variables the return statement evaluates            *)

\* the four scalars every profile-less retrieval file starts with
ScalarHeader(p) ==
    <<Scalar(p \o "_code", "I"), Scalar(p \o "_n", "I"), Scalar(p \o "_min", "f"),
      Scalar(p \o "_max", "f"), Scalar(p \o "_timeref", "I")>>

read_lwp ==
    [init   |-> {"t_obs", "lwp_rf", "lwp_dat", "lwp_ang"},
     header |-> ScalarHeader("lwp") \o <<Scalar("lwp_retrieval", "I")>>,
     n      |-> "lwp_n",
     body   |-> <<Time("t_obs", "i"), Rf("lwp_rf"), App("lwp_dat", "f"), AppAng("lwp_ang")>>,
     ret    |-> {"lwp_code", "lwp_n", "lwp_min", "lwp_max", "lwp_timeref",
                 "lwp_retrieval", "t_obs", "lwp_rf", "lwp_dat", "lwp_ang"}]

read_iwv ==
    [init   |-> {"t_obs", "iwv_rf", "iwv_dat", "iwv_ang"},
     header |-> ScalarHeader("iwv") \o <<Scalar("iwv_retrieval", "I")>>,
     n      |-> "iwv_n",
     body   |-> <<Time("t_obs", "i"), Rf("iwv_rf"), App("iwv_dat", "f"), AppAng("iwv_ang")>>,
     ret    |-> {"iwv_code", "iwv_n", "iwv_min", "iwv_max", "iwv_timeref",
                 "iwv_retrieval", "t_obs", "iwv_rf", "iwv_dat", "iwv_ang"}]

read_atn ==
    [init   |-> {"t_obs", "atn_freq", "atn_min", "atn_max", "atn_t", "atn_rf",
                 "atn_dat", "atn_ang"},
     header |-> <<Scalar("atn_code", "i"), Scalar("atn_n", "i"), Scalar("atn_timeref", "i"),
                  Scalar("atn_retrieval", "i"), Scalar("atn_freqn", "i"),
                  List("atn_freq", "f", "atn_freqn"), List("atn_min", "f", "atn_freqn"),
                  List("atn_max", "f", "atn_freqn")>>,
     n      |-> "atn_n",
     body   |-> <<Time("atn_t", "i"), Rf("atn_rf"),
                  Col("atn_dat", "loop", "f", "atn_freqn", "", 0), AppAng("atn_ang")>>,
     ret    |-> {"atn_code", "atn_n", "atn_timeref", "atn_retrieval", "atn_freqn",
                 "atn_freq", "atn_min", "atn_max", "atn_t", "atn_rf", "atn_dat", "atn_ang"}]

read_brt ==
    [init   |-> {"brt_freq", "brt_min", "brt_max", "brt_rf", "t_obs", "brt_ang"},
     header |-> <<Scalar("brt_code", "I"), Scalar("brt_n", "I"), Scalar("brt_timeref", "I"),
                  Scalar("brt_freqn", "I"), Batch("brt_freq", "f", "brt_freqn", 0),
                  Batch("brt_min", "f", "brt_freqn", 0), Batch("brt_max", "f", "brt_freqn", 0)>>,
     n      |-> "brt_n",
     body   |-> <<Time("t_obs", "i"), Rf("brt_rf"),
                  Col("brt_dat", "batch", "f", "brt_freqn", "", 0), AppAng("brt_ang")>>,
     ret    |-> {"brt_code", "brt_n", "brt_timeref", "brt_freqn", "brt_freq", "brt_min",
                 "brt_max", "t_obs", "brt_rf", "brt_dat", "brt_ang"}]

read_met ==
    [init   |-> {"t_obs", "met_rf", "met_dat1", "met_dat2", "met_dat3"},
     header |-> <<Scalar("met_code", "I"), Scalar("met_n", "I"), Own("met_nsen"),
                  Scalar("met_minp", "f"), Scalar("met_maxp", "f"), Scalar("met_mint", "f"),
                  Scalar("met_maxt", "f"), Scalar("met_minh", "f"), Scalar("met_maxh", "f"),
                  Scalar("met_timeref", "I")>>,
     n      |-> "met_n",
     body   |-> <<Time("t_obs", "I"), Rf("met_rf"), App("met_dat1", "f"),
                  App("met_dat2", "f"), App("met_dat3", "f")>>,
     ret    |-> {"met_code", "met_n", "met_nsen", "met_minp", "met_maxp", "met_mint",
                 "met_maxt", "met_minh", "met_maxh", "met_timeref", "t_obs", "met_rf",
                 "met_dat1", "met_dat2", "met_dat3"}]

\* the header of a profile file: the scalars, the retrieval and the altitudes
ProfileHeader(p) ==
    ScalarHeader(p) \o <<Scalar(p \o "_retrieval", "I"), Scalar(p \o "_altn", "I"),
                         Batch(p \o "_alt", "i", p \o "_altn", 0)>>

ProfileRet(p) ==
    {p \o "_code", p \o "_n", p \o "_min", p \o "_max", p \o "_timeref", p \o "_retrieval",
     p \o "_altn", "t_obs", p \o "_alt", p \o "_rf", p \o "_dat"}

read_tpc ==
    [init   |-> {"t_obs", "tpc_rf", "tpc_alt"},
     header |-> ProfileHeader("tpc"),
     n      |-> "tpc_n",
     body   |-> <<Time("t_obs", "i"), Rf("tpc_rf"), Col("tpc_dat", "batch", "f", "tpc_altn", "", 0)>>,
     ret    |-> ProfileRet("tpc")]

read_tpb ==
    [init   |-> {"t_obs", "tpb_alt", "tpb_rf"},
     header |-> ProfileHeader("tpb"),
     n      |-> "tpb_n",
     body   |-> <<Time("t_obs", "i"), Rf("tpb_rf"), Col("tpb_dat", "batch", "f", "tpb_altn", "", 0)>>,
     ret    |-> ProfileRet("tpb")]

read_hpc ==
    [init   |-> {"t_obs", "hpc_alt", "hpc_rf"},
     header |-> ProfileHeader("hpc"),
     n      |-> "hpc_n",
     body   |-> <<Time("t_obs", "i"), Rf("hpc_rf"), Col("hpc_dat", "batch", "f", "hpc_altn", "", 0)>>,
     ret    |-> ProfileRet("hpc")]

read_lpr ==
    [init   |-> {"t_obs", "lpr_rf", "lpr_alt"},
     header |-> ProfileHeader("lpr"),
     n      |-> "lpr_n",
     body   |-> <<Time("t_obs", "i"), Rf("lpr_rf"), Col("lpr_dat", "loop", "f", "lpr_altn", "", 0)>>,
     ret    |-> ProfileRet("lpr")]

read_irt ==
    [init   |-> {"t_obs", "irt_freq", "irt_rf", "irt_ang"},
     header |-> ScalarHeader("irt") \o <<Scalar("irt_freqn", "I"),
                                         List("irt_freq", "f", "irt_freqn")>>,
     n      |-> "irt_n",
     body   |-> <<Time("t_obs", "i"), Rf("irt_rf"), Col("irt_dat", "scalar", "f", "", "", 1),
                  AppAng("irt_ang")>>,
     ret    |-> {"irt_code", "irt_n", "irt_min", "irt_max", "irt_timeref", "irt_freqn",
                 "irt_freq", "t_obs", "irt_rf", "irt_dat", "irt_ang"}]

read_blb ==
    [init   |-> {"blb_freq", "blb_min", "blb_max", "t_obs", "blb_ang", "blb_rf"},
     header |-> <<Scalar("blb_code", "I"), Scalar("blb_n", "I"), Scalar("blb_freqn", "I"),
                  Batch("blb_min", "f", "blb_freqn", 0), Batch("blb_max", "f", "blb_freqn", 0),
                  Scalar("blb_timeref", "I"), Batch("blb_freq", "f", "blb_freqn", 0),
                  Scalar("blb_angn", "I"), Ins("blb_ang", "blb_ang", "f", "blb_angn", "", 0)>>,
     n      |-> "blb_n",
     body   |-> <<Time("t_obs", "i"), Ins("blb_rf", "blb_rf", "B", "", "", 0),
                  Ins("blb_dat", "blb_dat", "f", "blb_angn", "blb_freqn", 1)>>,
     ret    |-> {"blb_code", "blb_n", "blb_timeref", "blb_freqn", "blb_freq", "blb_min",
                 "blb_max", "blb_angn", "blb_ang", "t_obs", "blb_rf", "blb_dat"}]

nindex == 6

read_sta ==
    [init   |-> {"t_obs", "sta_rf", "sta_list", "sta_ang"},
     header |-> <<Scalar("sta_code", "I"), Scalar("sta_n", "I"), Scalar("sta_min", "f"),
                  Scalar("sta_max", "f"), Batch("sta_list", "i", "", nindex),
                  Scalar("sta_timeref", "I")>>,
     n      |-> "sta_n",
     body   |-> <<Time("t_obs", "i"), Rf("sta_rf"), Col("sta_dat", "loop", "f", "", "", nindex)>>,
     ret    |-> {"sta_code", "sta_n", "sta_min", "sta_max", "sta_list", "sta_timeref",
                 "t_obs", "sta_rf", "sta_dat"}]

read_cbh ==
    [init   |-> {"t_obs", "cbh_rf", "cbh_dat"},
     header |-> ScalarHeader("cbh"),
     n      |-> "cbh_n",
     body   |-> <<Time("t_obs", "i"), Rf("cbh_rf"), App("cbh_dat", "f")>>,
     ret    |-> {"cbh_code", "cbh_n", "cbh_min", "cbh_max", "cbh_timeref", "t_obs",
                 "cbh_rf", "cbh_dat"}]

read_blh ==
    [init   |-> {"t_obs", "blh_t", "blh_rf", "blh_dat"},
     header |-> <<Scalar("blh_code", "i"), Scalar("blh_n", "i"), Scalar("blh_min", "f"),
                  Scalar("blh_max", "f"), Scalar("blh_timeref", "i")>>,
     n      |-> "blh_n",
     body   |-> <<Time("blh_t", "i"), Rf("blh_rf"), App("blh_dat", "f")>>,
     ret    |-> {"blh_code", "blh_n", "blh_min", "blh_max", "blh_timeref", "blh_t",
                 "blh_rf", "blh_dat"}]

read_hkd ==
    [init   |-> {"t_obs", "hkd_alarm", "hkd_lon", "hkd_lat", "hkd_amb", "hkd_sta",
                 "hkd_fsh", "hkd_qlt", "hkd_sts"},
     header |-> <<Scalar("hkd_code", "I"), Scalar("hkd_n", "I"), Scalar("hkd_timeref", "I"),
                  Own("hkd_select")>>,
     n      |-> "hkd_n",
     body   |-> <<Time("t_obs", "I"), App("hkd_alarm", "b"), Own("hkd_gps"), Own("hkd_amb"),
                  Own("hkd_sta"), Own("hkd_fsh"), Own("hkd_qlt"), Own("hkd_sts")>>,
     ret    |-> {"hkd_code", "hkd_n", "hkd_timeref", "hkd_select", "t_obs", "hkd_alarm",
                 "hkd_lon", "hkd_lat", "hkd_amb", "hkd_sta", "hkd_fsh", "hkd_qlt", "hkd_sts"}]

\* the per-record lists and matrices of read_abscal_his
HisLists ==
    {"cal_entlen", "cal_inst", "cal_r1caltype", "cal_r2caltype", "cal_r1time",
     "cal_r2time", "cal_r1tamb", "cal_r2tamb", "cal_r1pres", "cal_r2pres", "cal_r1hot",
     "cal_r2hot", "cal_r1cold", "cal_r2cold", "cal_r1freqn", "cal_r2freqn"}

HisMatrices ==
    {"cal_r1freq", "cal_r2freq", "cal_flag", "cal_gain", "cal_noise", "cal_sysn", "cal_alpha"}

\* the statement "if cal_r1freqn[i] > 10: break"
r1freqn_limit == 10

read_abscal_his ==
    [init   |-> {"t_obs"} \cup HisLists \cup HisMatrices,
     header |-> <<Scalar("cal_code", "i"), Scalar("cal_n", "i")>>,
     n      |-> "cal_n",
     body   |-> <<App("cal_entlen", "i"), App("cal_inst", "i"), App("cal_r1caltype", "i"),
                  App("cal_r2caltype", "i"), Time("cal_r1time", "i"), Time("cal_r2time", "i"),
                  App("cal_r1tamb", "f"), App("cal_r2tamb", "f"), App("cal_r1pres", "f"),
                  App("cal_r2pres", "f"), App("cal_r1hot", "f"), App("cal_r2hot", "f"),
                  App("cal_r1cold", "f"), App("cal_r2cold", "f"), Skip(5),
                  App("cal_r1freqn", "i"), Break("cal_r1freqn", r1freqn_limit),
                  Col("cal_r1freq", "loop", "f", "cal_r1freqn", "", 0),
                  App("cal_r2freqn", "i"),
                  Col("cal_r2freq", "loop", "f", "cal_r2freqn", "", 0),
                  Col("cal_flag", "loop", "i", "cal_r1freqn", "cal_r2freqn", 0),
                  Col("cal_gain", "loop", "f", "cal_r1freqn", "cal_r2freqn", 0),
                  Col("cal_noise", "loop", "f", "cal_r1freqn", "cal_r2freqn", 0),
                  Col("cal_sysn", "loop", "f", "cal_r1freqn", "cal_r2freqn", 0),
                  Col("cal_alpha", "loop", "f", "cal_r1freqn", "cal_r2freqn", 0)>>,
     ret    |-> {"cal_code", "cal_n"} \cup HisLists \cup HisMatrices]

read_lv0 ==
    [init   |-> {"t_obs", "lv0_freq", "lv0_irwvl", "lv0_alpha", "lv0_delt", "lv0_t",
                 "lv0_elv", "lv0_azm", "lv0_tambmst", "lv0_dflagmst", "lv0_tambslv",
                 "lv0_dflagslv", "lv0_t_env", "lv0_press", "lv0_humid"},
     header |-> <<Scalar("lv0_code", "i"), Scalar("lv0_n", "i"), Scalar("lv0_idmst", "i"),
                  Scalar("lv0_idslv", "i"), Scalar("lv0_timeref", "i"),
                  Scalar("lv0_freqn", "i"), Batch("lv0_freq", "f", "lv0_freqn", 0),
                  Scalar("lv0_irwvln", "i"), Batch("lv0_irwvl", "f", "lv0_irwvln", 0),
                  Scalar("lv0_lon", "f"), Scalar("lv0_lat", "f"),
                  Batch("lv0_alpha", "f", "lv0_freqn", 0), Batch("lv0_delt", "f", "lv0_freqn", 0)>>,
     n      |-> "lv0_n",
     body   |-> <<Time("lv0_t", "i"), Col("lv0_ud", "loop", "f", "lv0_freqn", "", 0),
                  App("lv0_elv", "f"), App("lv0_azm", "f"), App("lv0_tambmst", "f"),
                  App("lv0_dflagmst", "i"), Own("lv0_slave"),
                  Col("lv0_gain", "loop", "f", "lv0_freqn", "", 0),
                  Col("lv0_sysn", "loop", "f", "lv0_freqn", "", 0),
                  Col("lv0_nd", "loop", "f", "lv0_freqn", "", 0),
                  App("lv0_t_env", "f"), App("lv0_press", "f"), App("lv0_humid", "f"),
                  Col("lv0_irtmp", "loop", "f", "lv0_irwvln", "", 0)>>,
     ret    |-> {"lv0_code", "lv0_n", "lv0_idmst", "lv0_idslv", "lv0_timeref", "lv0_freqn",
                 "lv0_freq", "lv0_irwvln", "lv0_irwvl", "lv0_lon", "lv0_lat", "lv0_alpha",
                 "lv0_delt", "lv0_t", "lv0_ud", "lv0_elv", "lv0_azm", "lv0_tambmst",
                 "lv0_dflagmst", "lv0_tambslv", "lv0_dflagslv", "lv0_gain", "lv0_sysn",
                 "lv0_nd", "lv0_t_env", "lv0_press", "lv0_humid", "lv0_irtmp"}]

Formats == {"LWP", "IWV", "ATN", "BRT", "MET", "TPC", "TPB", "HPC", "LPR", "IRT", "BLB",
            "STA", "CBH", "BLH", "HKD", "HIS", "LV0"}

Reader(f) ==
    CASE f = "LWP" -> read_lwp [] f = "IWV" -> read_iwv [] f = "ATN" -> read_atn
      [] f = "BRT" -> read_brt [] f = "MET" -> read_met [] f = "TPC" -> read_tpc
      [] f = "TPB" -> read_tpb [] f = "HPC" -> read_hpc [] f = "LPR" -> read_lpr
      [] f = "IRT" -> read_irt [] f = "BLB" -> read_blb [] f = "STA" -> read_sta
      [] f = "CBH" -> read_cbh [] f = "BLH" -> read_blh [] f = "HKD" -> read_hkd
      [] f = "HIS" -> read_abscal_his [] f = "LV0" -> read_lv0

-----------------------------------------------------------------------------
(* The files the model reads.  A file is laid out as its reader consumes   *)
(* it: a header whose code, sample count, axis counts and selector are the *)
(* parameters below, then the samples; every other field holds the fill    *)
(* word.  The file is then cut short, or extended, to a chosen length.     *)

\* the 4 bytes of struct.pack('<i', x); a negative x is the complement of -x-1
LE4(x) ==
    LET u == IF x < 0 THEN -x - 1 ELSE x
        byte(k) == (u \div (256 ^ k)) % 256
    IN  [k \in 1..4 |-> IF x < 0 THEN 255 - byte(k - 1) ELSE byte(k - 1)]

\* the file codes the comments of the readers give
blh_code == 1777786

lv0_code == 111112

\* the code read_met takes as that of the older file layout
met_code_old == 599658943

\* a sample or axis count far beyond what a file holds
HugeCount == 10000000

\* the readers that unpack the counts of the header as signed ('<i')
SignedFormats == {"ATN", "BLH", "HIS", "LV0"}

\* the names of the fields that size the reads of a reader: c1 and c2
AxisFields(f) ==
    CASE f = "ATN" -> <<"atn_freqn", "">>    [] f = "BRT" -> <<"brt_freqn", "">>
      [] f = "TPC" -> <<"tpc_altn", "">>     [] f = "TPB" -> <<"tpb_altn", "">>
      [] f = "HPC" -> <<"hpc_altn", "">>     [] f = "LPR" -> <<"lpr_altn", "">>
      [] f = "IRT" -> <<"irt_freqn", "">>    [] f = "BLB" -> <<"blb_freqn", "blb_angn">>
      [] f = "HIS" -> <<"cal_r1freqn", "cal_r2freqn">>
      [] f = "LV0" -> <<"lv0_freqn", "lv0_irwvln">>
      [] OTHER -> <<"", "">>

Codes(f) ==
    CASE f = "MET" -> {met_code_old, met_code_old + 1}
      [] f = "BLH" -> {blh_code, 0}
      [] f = "LV0" -> {lv0_code, 0}
      [] OTHER -> {0}

BadCounts(f) == {HugeCount} \cup (IF f \in SignedFormats THEN {-1} ELSE {})

\* the selector byte of HKD (bit 6 = GPS ... bit 1 = status); lv0_idslv of LV0
Selectors(f) ==
    CASE f = "HKD" -> {0, 2, 4, 8, 16, 32, 64, 126, 129}
      [] f = "LV0" -> {0, 1}
      [] OTHER -> {0}

FillWords == {0, 16843009}

Params(f) ==
    [code : Codes(f),
     n    : (0..MaxN) \cup BadCounts(f),
     c1   : IF AxisFields(f)[1] = "" THEN {0}
            ELSE (0..MaxAxis) \cup BadCounts(f)
                   \cup (IF f = "HIS" THEN {r1freqn_limit + 1} ELSE {}),
     c2   : IF AxisFields(f)[2] = "" THEN {0} ELSE 0..MaxAxis,
     sel  : Selectors(f),
     w    : FillWords]

\* the value the file holds for the field read into the variable v
FieldValue(f, v, p) ==
    IF v = Reader(f).header[1].v THEN p.code
    ELSE IF v = Reader(f).n THEN p.n
    ELSE IF v # "" /\ v = AxisFields(f)[1] THEN p.c1
    ELSE IF v # "" /\ v = AxisFields(f)[2] THEN p.c2
    ELSE IF v = "lv0_idslv" THEN p.sel
    ELSE p.w

\* the number of elements the file holds for a count: none for a count the
\* reader cannot satisfy
Held(k) == IF k < 0 \/ k >= HugeCount THEN 0 ELSE k

GenCount(f, ins, p) ==
    LET g(v) == IF v = "" THEN 0 ELSE FieldValue(f, v, p)
    IN  IF ins.op = "blb_dat"
        THEN Held(g(ins.b)) * Held(g(ins.a) + ins.c)
        ELSE Held(g(ins.a) + g(ins.b) + ins.c)

RECURSIVE Words(_, _)
Words(k, w) == IF k <= 0 THEN <<>> ELSE LE4(w) \o Words(k - 1, w)

\* bit k (from the most significant, as hkd_select[k]) of the selector
SelectBit(p, k) == bin8(p.sel)[k + 1]

\* the bytes the file holds for one statement of the reader
InsBytes(f, ins, p) ==
    CASE ins.op \in {"scalar", "time", "app_ang"} -> LE4(FieldValue(f, ins.v, p))
      [] ins.op = "app" -> IF ins.ty = "b" THEN <<p.w % 256>> ELSE LE4(FieldValue(f, ins.v, p))
      [] ins.op \in {"rf", "blb_rf"} -> <<p.w % 256>>
      [] ins.op \in {"batch", "list", "blb_ang", "col", "skip", "blb_dat"} ->
             Words(GenCount(f, ins, p), p.w)
      [] ins.op = "met_nsen" -> IF p.code = met_code_old THEN <<>> ELSE <<p.w % 256>>
      [] ins.op = "hkd_select" -> <<p.sel, 0, 0, 0>>
      [] ins.op = "hkd_gps" -> Words(2 * SelectBit(p, 1), p.w)
      [] ins.op = "hkd_amb" -> Words(4 * SelectBit(p, 2), p.w)
      [] ins.op = "hkd_sta" -> Words(2 * SelectBit(p, 3), p.w)
      [] ins.op = "hkd_fsh" -> Words(SelectBit(p, 4), p.w)
      [] ins.op = "hkd_qlt" -> Words(SelectBit(p, 5), p.w)
      [] ins.op = "hkd_sts" -> Words(SelectBit(p, 6), p.w)
      [] ins.op = "lv0_slave" -> Words(IF p.sel # 0 THEN 2 ELSE 0, p.w)
      [] OTHER -> <<>>

\* the bytes of the statements k.. of a statement list; a sample the reader
\* leaves at a break holds nothing after it
RECURSIVE SeqBytes(_, _, _, _)
SeqBytes(f, instrs, k, p) ==
    IF k > Len(instrs) THEN <<>>
    ELSE IF instrs[k].op = "break" /\ FieldValue(f, instrs[k].v, p) > instrs[k].c THEN <<>>
    ELSE InsBytes(f, instrs[k], p) \o SeqBytes(f, instrs, k + 1, p)

RECURSIVE Repeat(_, _)
Repeat(s, k) == IF k <= 0 THEN <<>> ELSE s \o Repeat(s, k - 1)

\* the number of samples the file holds: n, MaxN for a count it cannot hold
HeldSamples(p) == IF p.n < 0 THEN 0 ELSE IF p.n > MaxN THEN MaxN ELSE p.n

\* the lengths a file is cut or extended to: its first bytes only, up to
\* MaxCut bytes short of the end of its header (head bytes) or of one of its
\* samples (rec bytes each), or longer than the k samples it holds
Lengths(head, rec, k) ==
    LET full == head + k * rec
    IN  {l \in 0..(full + MaxExtra) :
           \/ l <= MaxHead
           \/ l > full
           \/ \E j \in 0..k : head + j * rec - MaxCut <= l /\ l <= head + j * rec}

Files(f) ==
    UNION {LET header == SeqBytes(f, Reader(f).header, 1, p)
               sample == SeqBytes(f, Reader(f).body, 1, p)
               ext    == header \o Repeat(sample, HeldSamples(p)) \o [k \in 1..MaxExtra |-> 0]
           IN  {SubSeq(ext, 1, l) : l \in Lengths(Len(header), Len(sample), HeldSamples(p))} :
           p \in Params(f)}

-----------------------------------------------------------------------------
(* One call of a reader on a file. *)

NoCall == [fn |-> "none", arg |-> 0, pc |-> "idle", ret |-> <<>>]

\* no read has yet got fewer bytes than it asked for
NoShort == <<>>

NoError == [kind |-> "none", off |-> 0]

\* the state at `with open(f, "rb") as f:', the lists of the reader empty
Init ==
    /\ fmt \in Formats
    /\ buf \in Files(fmt)
    /\ off = 0
    /\ pc = "header"
    /\ ip = 1
    /\ i = 0
    /\ hdr = <<>>
    /\ ds = [v \in Reader(fmt).init |-> PyList(<<>>)]
    /\ err = NoError
    /\ short = NoShort
    /\ call = NoCall

\* the statement the reader is at
Cur == IF pc = "header" THEN Reader(fmt).header[ip] ELSE Reader(fmt).body[ip]

At(op) == pc \in {"header", "body"} /\ Cur.op = op

\* bytes left in the file
Avail == Len(buf) - off

\* f.read returning other bytes to the second of two calls
Word_second(at) ==
    IF call.arg = 2 THEN <<0, 0, 0, 0>> ELSE SubSeq(buf, at + 1, at + 4)

\* f.read returns the bytes at the position; struct.unpack decodes them
Word(at) == SubSeq(buf, at + 1, at + 4)

Unpack(ty, b) ==
    CASE ty = "I" -> unpack_I(b) [] ty = "i" -> unpack_i(b)
      [] ty = "f" -> unpack_f(b) [] ty = "b" -> unpack_b(b)

PyVal(ty, b) == IF ty = "f" THEN PyFloat(unpack_f(b)) ELSE PyInt(Unpack(ty, b))

\* k values of 4 bytes from the position at
Items(ty, at, k) == [j \in 1..k |-> PyVal(ty, Word(at + 4 * (j - 1)))]

\* the value of a count: a scalar of the header, or element i of a list
Val(v) ==
    IF v = "" THEN 0
    ELSE IF v \in DOMAIN hdr THEN hdr[v] ELSE ds[v].list[i + 1].int

Count(ins) == Val(ins.a) + Val(ins.b) + ins.c

\* a loop of k reads of 4 bytes is served when the file holds k words; it
\* fails at the first read the file does not hold 4 bytes for
LoopOk(k) == k <= Avail \div 4

LoopFailAt == off + 4 * (Avail \div 4)

Bind(locals, v, x) == (v :> x) @@ locals

\* v.append(x)
AppendTo(locals, v, x) == Bind(locals, v, PyList(Append(locals[v].list, x)))

\* if i == 0: v = np.c_[tmp]   else: v = np.c_[v, tmp]
Column(v, tmp) == Bind(ds, v, IF i = 0 THEN np_c1(tmp) ELSE np_c2(ds[v], tmp))

ColumnOk(v, tmp) == i = 0 \/ np_c2_ok(ds[v], tmp)

\* the offset of the first read that got fewer bytes than it asked for
Crossed(at) == IF short = NoShort THEN <<at>> ELSE short

\* control moves to the next statement, or to the test of the sample loop
Advance ==
    LET last == ip = Len(IF pc = "header" THEN Reader(fmt).header ELSE Reader(fmt).body)
    IN  /\ ip' = IF last THEN 1 ELSE ip + 1
        /\ pc' = IF last THEN "loop" ELSE pc
        /\ i' = IF last /\ pc = "body" THEN i + 1 ELSE i

\* the statement completes and the position is moved back over what it read
Ok_back(noff, nhdr, nds, nshort) ==
    /\ off' = 2 * off - noff
    /\ hdr' = nhdr
    /\ ds' = nds
    /\ short' = nshort
    /\ Advance
    /\ UNCHANGED <<fmt, buf, err, call>>

\* the statement completes, the position in the file being one that the
\* suspended call uses as well
Ok_shared(noff, nhdr, nds, nshort) ==
    /\ off' = noff
    /\ hdr' = nhdr
    /\ ds' = nds
    /\ short' = nshort
    /\ Advance
    /\ call' = IF call.fn = "read" /\ call.pc = "two"
               THEN [call EXCEPT !.ret[1].off = noff]
               ELSE call
    /\ UNCHANGED <<fmt, buf, err>>

\* the statement completes
Ok(noff, nhdr, nds, nshort) ==
    /\ off' = noff
    /\ hdr' = nhdr
    /\ ds' = nds
    /\ short' = nshort
    /\ Advance
    /\ UNCHANGED <<fmt, buf, err, call>>

\* the statement raises: no reader catches an exception, the call ends
Raise(kind, at, noff, nshort) ==
    /\ pc' = "failed"
    /\ err' = [kind |-> kind, off |-> at]
    /\ off' = noff
    /\ short' = nshort
    /\ UNCHANGED <<fmt, buf, ip, i, hdr, ds, call>>

\* a read of 4 bytes at the position finds fewer: struct.error
RaiseShort(at) == Raise("struct.error", at, Len(buf), Crossed(at))

\* x = struct.unpack('<ty', f.read(4))[0]
ReadScalar ==
    /\ At("scalar")
    /\ IF Avail >= 4
       THEN Ok(off + 4, Bind(hdr, Cur.v, Unpack(Cur.ty, Word(off))), ds, short)
       ELSE RaiseShort(off)

\* read_met reading the sensor byte whatever the code is
ReadMetNsen_always ==
    /\ At("met_nsen")
    /\ IF Avail >= 1
       THEN Ok(off + 1, Bind(hdr, "met_nsen", PyBytes(<<buf[off + 1]>>)), ds, short)
       ELSE RaiseShort(off)

\* read_met: the sensor byte is read unless the code is that of the old layout
ReadMetNsen ==
    /\ At("met_nsen")
    /\ IF hdr["met_code"] = met_code_old
       THEN Ok(off, Bind(hdr, "met_nsen", PyInt(0)), ds, short)
       ELSE IF Avail >= 1
            THEN Ok(off + 1, Bind(hdr, "met_nsen", PyBytes(<<buf[off + 1]>>)), ds, short)
            ELSE RaiseShort(off)

\* x = struct.unpack('<{k}ty', f.read(4 * k)): f.read of a negative length
\* other than -1 is a ValueError
ReadBatch ==
    /\ At("batch")
    /\ LET k == Count(Cur)
       IN  IF k < 0 THEN Raise("ValueError", off, off, short)
           ELSE IF Avail < 4 * k THEN RaiseShort(off)
           ELSE Ok(off + 4 * k, hdr, Bind(ds, Cur.v, PyTuple(Items(Cur.ty, off, k))), short)

\* for vname in range(k): x.append(struct.unpack('<ty', f.read(4))[0])
ReadList ==
    /\ At("list")
    /\ LET k == Max(Count(Cur), 0)
       IN  IF LoopOk(k)
           THEN Ok(off + 4 * k, hdr,
                   Bind(ds, Cur.v, PyList(ds[Cur.v].list \o Items(Cur.ty, off, k))), short)
           ELSE RaiseShort(LoopFailAt)

\* read_hkd: dummy1 is the selector byte, dummy2 = f.read(3) is not unpacked
ReadSelect ==
    /\ At("hkd_select")
    /\ IF Avail >= 1
       THEN Ok(Min(off + 4, Len(buf)), hdr,
               Bind(ds, "hkd_select", PyList([k \in 1..8 |-> PyInt(bin8(buf[off + 1])[k])])),
               IF Avail < 4 THEN Crossed(off + 1) ELSE short)
       ELSE Raise("TypeError", off, Len(buf), Crossed(off))

\* read_blb: tmp = <blb_angn floats>; blb_ang.append(ang_to_zen_azm(tmp[i]))
ReadBlbAng ==
    /\ At("blb_ang")
    /\ LET k == Count(Cur)
       IN  IF k < 0 THEN Raise("ValueError", off, off, short)
           ELSE IF Avail < 4 * k THEN RaiseShort(off)
           ELSE Ok(off + 4 * k, hdr,
                   Bind(ds, Cur.v, PyList(ds[Cur.v].list
                                            \o [j \in 1..k |-> AngOf(unpack_f(Word(off + 4 * (j - 1))))])),
                   short)

\* a loop that goes on while the file holds bytes
ForNext_more ==
    /\ pc = "loop"
    /\ pc' = IF i < hdr[Reader(fmt).n] \/ Avail > 0 THEN "body" ELSE "return"
    /\ UNCHANGED <<fmt, buf, off, ip, i, hdr, ds, err, short, call>>

\* for i in range(n): the body runs while i < n
ForNext ==
    /\ pc = "loop"
    /\ pc' = IF i < hdr[Reader(fmt).n] THEN "body" ELSE "return"
    /\ UNCHANGED <<fmt, buf, off, ip, i, hdr, ds, err, short, call>>

\* a time read that takes the bytes a short file holds for a whole word
ReadTime_zero ==
    /\ At("time")
    /\ IF Avail >= 4
       THEN Ok(off + 4, hdr, AppendTo(ds, Cur.v, sample_time(Cur.ty, Word(off))), short)
       ELSE Ok(Len(buf), hdr, AppendTo(ds, Cur.v, sample_time(Cur.ty, <<0, 0, 0, 0>>)), short)

\* t = struct.unpack('<ty', f.read(4))[0]; x.append(t_ref + timedelta(seconds=t))
ReadTime ==
    /\ At("time")
    /\ IF Avail >= 4
       THEN Ok(off + 4, hdr, AppendTo(ds, Cur.v, sample_time(Cur.ty, Word(off))), short)
       ELSE RaiseShort(off)

\* x.append(self.rainflag('{:08b}'.format(ord(f.read(1))))): ord of no byte
\* is a TypeError
ReadRainflag ==
    /\ At("rf")
    /\ IF Avail >= 1
       THEN Ok(off + 1, hdr, AppendTo(ds, Cur.v, rainflag(bin8(buf[off + 1]))), short)
       ELSE Raise("TypeError", off, Len(buf), Crossed(off))

\* read_blb: blb_rf.append([int(tmp[0]), int(tmp[5]+tmp[6], 2)])
ReadRainMode ==
    /\ At("blb_rf")
    /\ IF Avail >= 1
       THEN Ok(off + 1, hdr, AppendTo(ds, Cur.v, blb_rainmode(bin8(buf[off + 1]))), short)
       ELSE Raise("TypeError", off, Len(buf), Crossed(off))

\* x.append(struct.unpack('<ty', f.read(size))[0])
AppendScalar ==
    /\ At("app")
    /\ LET size == IF Cur.ty = "b" THEN 1 ELSE 4
       IN  IF Avail >= size
           THEN Ok(off + size, hdr,
                   AppendTo(ds, Cur.v, PyVal(Cur.ty, SubSeq(buf, off + 1, off + size))), short)
           ELSE RaiseShort(off)

\* x.append(self.ang_to_zen_azm(struct.unpack('<f', f.read(4))[0]))
AppendAng ==
    /\ At("app_ang")
    /\ IF Avail >= 4
       THEN Ok(off + 4, hdr, AppendTo(ds, Cur.v, AngOf(unpack_f(Word(off)))), short)
       ELSE RaiseShort(off)

\* tmp is read in one batch, element by element, or as one float; then
\* np.c_ makes it the first column of the matrix or appends it as a column
AppendColumn ==
    /\ At("col")
    /\ LET k   == Count(Cur)
           kk  == IF Cur.ty = "scalar" THEN 1 ELSE Max(k, 0)
           tmp == Items(Cur.ety, off, kk)
       IN  IF Cur.ty = "batch" /\ k < 0 THEN Raise("ValueError", off, off, short)
           ELSE IF Cur.ty = "batch" /\ Avail < 4 * k THEN RaiseShort(off)
           ELSE IF ~LoopOk(kk) THEN RaiseShort(LoopFailAt)
           ELSE IF ~ColumnOk(Cur.v, tmp)
                THEN Raise("ValueError", off + 4 * kk, off + 4 * kk, short)
                ELSE Ok(off + 4 * kk, hdr, Column(Cur.v, tmp), short)

\* read_blb: for j in range(blb_freqn): tmp = <blb_angn+1 floats>;
\* if i == 0: blb_dat = np.c_[tmp]   else: blb_dat = np.c_[blb_dat, tmp]
ReadBlbDat ==
    /\ At("blb_dat")
    /\ LET freqn == Val(Cur.b)
           per   == Val(Cur.a) + Cur.c
           got   == Avail \div (4 * per)
           cols  == [j \in 1..freqn |-> Items("f", off + 4 * per * (j - 1), per)]
       IN  IF freqn <= 0 THEN Ok(off, hdr, ds, short)
           ELSE IF got < freqn THEN RaiseShort(off + 4 * per * got)
           ELSE Ok(off + 4 * per * freqn, hdr,
                   Bind(ds, Cur.v, IF i = 0 THEN PyArray(<<cols[freqn]>>)
                                   ELSE PyArray(ds[Cur.v].array \o cols)),
                   short)

\* read_hkd: hkd_select[k], the digit k of the selector byte
Select(k) == ds["hkd_select"].list[k + 1].int

Nones(k) == [j \in 1..k |-> PyNone]

\* if hkd_select[1]: two floats through convert_lonlat, else [None] twice
ReadGps ==
    /\ At("hkd_gps")
    /\ IF Select(1) = 0
       THEN Ok(off, hdr, AppendTo(AppendTo(ds, "hkd_lon", PyList(Nones(1))),
                                  "hkd_lat", PyList(Nones(1))), short)
       ELSE IF LoopOk(2)
            THEN Ok(off + 8, hdr,
                    AppendTo(AppendTo(ds, "hkd_lon", LonLatOf(unpack_f(Word(off)))),
                             "hkd_lat", LonLatOf(unpack_f(Word(off + 4)))), short)
            ELSE RaiseShort(LoopFailAt)

\* if hkd_select[2]: a column of four floats; else, for i == 0, the plain
\* list [None,None,None,None], and for i > 0 np.c_ of hkd_amb and that list
ReadAmb ==
    /\ At("hkd_amb")
    /\ IF Select(2) = 0
       THEN Ok(off, hdr, Bind(ds, "hkd_amb", IF i = 0 THEN PyList(Nones(4))
                                             ELSE np_c2(ds["hkd_amb"], Nones(4))), short)
       ELSE IF LoopOk(4) THEN Ok(off + 16, hdr, Column("hkd_amb", Items("f", off, 4)), short)
            ELSE RaiseShort(LoopFailAt)

\* if hkd_select[3]: a column of two floats, else a column [None,None]
ReadSta ==
    /\ At("hkd_sta")
    /\ IF Select(3) = 0
       THEN Ok(off, hdr, Column("hkd_sta", Nones(2)), short)
       ELSE IF LoopOk(2) THEN Ok(off + 8, hdr, Column("hkd_sta", Items("f", off, 2)), short)
            ELSE RaiseShort(LoopFailAt)

\* the three groups of one '<I' word: flash memory, quality, status; x is what
\* the group appends for the word at the position
WordGroup(k, v, x) ==
    IF Select(k) = 0
    THEN Ok(off, hdr, AppendTo(ds, v, PyList(Nones(1))), short)
    ELSE IF Avail >= 4 THEN Ok(off + 4, hdr, AppendTo(ds, v, x), short)
         ELSE RaiseShort(off)

ReadFsh == At("hkd_fsh") /\ WordGroup(4, "hkd_fsh", PyInt(unpack_I(Word(off))))

ReadQlt == At("hkd_qlt") /\ WordGroup(5, "hkd_qlt", hkd_qlt_decode(unpack_I(Word(off))))

ReadSts == At("hkd_sts") /\ WordGroup(6, "hkd_sts", hkd_sts_decode(unpack_I(Word(off))))

\* read_abscal_his: for vname in range(5): dummy = <float>
SkipDummy ==
    /\ At("skip")
    /\ IF LoopOk(Cur.c) THEN Ok(off + 4 * Cur.c, hdr, ds, short)
       ELSE RaiseShort(LoopFailAt)

\* read_abscal_his: if cal_r1freqn[i] > 10: break
BreakTest ==
    /\ At("break")
    /\ IF ds[Cur.v].list[i + 1].int > Cur.c
       THEN /\ pc' = "return"
            /\ UNCHANGED <<fmt, buf, off, ip, i, hdr, ds, err, short, call>>
       ELSE Ok(off, hdr, ds, short)

\* read_lv0: if lv0_idslv != 0: a float and an int, else [] twice
ReadSlave ==
    /\ At("lv0_slave")
    /\ IF hdr["lv0_idslv"] = 0
       THEN Ok(off, hdr, AppendTo(AppendTo(ds, "lv0_tambslv", PyList(<<>>)),
                                  "lv0_dflagslv", PyList(<<>>)), short)
       ELSE IF LoopOk(2)
            THEN Ok(off + 8, hdr,
                    AppendTo(AppendTo(ds, "lv0_tambslv", PyVal("f", Word(off))),
                             "lv0_dflagslv", PyVal("i", Word(off + 4))), short)
            ELSE RaiseShort(LoopFailAt)

\* the local variables that are bound
Bound == DOMAIN hdr \cup DOMAIN ds

\* return {...}: a variable never assigned is an UnboundLocalError
Return ==
    /\ pc = "return"
    /\ IF Reader(fmt).ret \subseteq Bound
       THEN /\ pc' = "done"
            /\ UNCHANGED <<fmt, buf, off, ip, i, hdr, ds, err, short, call>>
       ELSE Raise("UnboundLocalError", off, off, short)

Next ==
    \/ ReadScalar \/ ReadMetNsen \/ ReadBatch \/ ReadList \/ ReadSelect \/ ReadBlbAng
    \/ ForNext \/ ReadTime \/ ReadRainflag \/ ReadRainMode \/ AppendScalar \/ AppendAng
    \/ AppendColumn \/ ReadBlbDat \/ ReadGps \/ ReadAmb \/ ReadSta \/ ReadFsh \/ ReadQlt
    \/ ReadSts \/ SkipDummy \/ BreakTest \/ ReadSlave \/ Return

Spec == Init /\ [][Next]_vars

\* the call returned its dictionary
Returned == pc = "done"

\* the call ended with an exception
Failed == pc = "failed"

-----------------------------------------------------------------------------
(* Calls of a codec on its own. *)


\* elevations and azimuths, in tenths of a degree, whose encodings are tried
ElTenths == {-900, -100, -1, 0, 1, 385, 500, 999, 1000, 1001, 1385, 1499, 1501, 1600, 1999}

AzTenths == {0, 1, 5, 15, 500, 999, 1000, 2674, 3599}

\* the examples of the module docstring, in tenths
AngExamples == {12674385, 2674385, 900, 5900, 15900}

AngArgs ==
    AngExamples
      \cup {AngEncode(el, az) : el \in ElTenths, az \in AzTenths}
      \cup (1000 - AngSpan .. 1000 + AngSpan)
      \cup (10000000 - AngSpan .. 10000000 + AngSpan)

\* the examples of the module docstring, in hundredths of a minute
LonLatExamples == {-1224550, -332125, -333050}

\* DDDMM.mm arguments of both signs, minutes beyond 59 among them
LonLatArgs ==
    LonLatExamples
      \cup {sg * (d * 10000 + m * 100 + c) :
               sg \in {-1, 1}, d \in {0, 1, 33, 122, 179}, m \in {0, 1, 21, 45, 59, 75},
               c \in {0, 1, 25, 50, 99}}

\* every value of the rain-flag byte
RainBytes == 0..255

\* HKD status and quality words: no bit, each single bit, each pair of
\* neighbouring bits, the fill word of the generated files, every bit below
\* bit 31
BitWords ==
    {0, 16843009, 2147483647}
      \cup {2 ^ k : k \in 0..30}
      \cup {3 * 2 ^ k : k \in 0..29}

IdleDecode ==
    /\ fmt = "none"
    /\ buf = <<>>
    /\ off = 0
    /\ pc = "idle"
    /\ ip = 1
    /\ i = 0
    /\ hdr = <<>>
    /\ ds = <<>>
    /\ err = [kind |-> "none", off |-> 0]
    /\ short = NoShort

InitCodec ==
    /\ IdleDecode
    /\ call \in {[fn |-> "ang_to_zen_azm", arg |-> a, pc |-> "call", ret |-> <<>>] :
                   a \in AngArgs}
               \cup {[fn |-> "convert_lonlat", arg |-> a, pc |-> "call", ret |-> <<>>] :
                       a \in LonLatArgs}
               \cup {[fn |-> f, arg |-> a, pc |-> "call", ret |-> <<>>] :
                       f \in {"rainflag", "blb_rainmode"}, a \in RainBytes}
               \cup {[fn |-> f, arg |-> a, pc |-> "call", ret |-> <<>>] :
                       f \in {"hkd_sts", "hkd_qlt"}, a \in BitWords}

CallAng ==
    /\ call.pc = "call"
    /\ call.fn = "ang_to_zen_azm"
    /\ call' = [call EXCEPT !.pc = "ret", !.ret = ang_to_zen_azm(call.arg)]
    /\ UNCHANGED decodeVars

CallLonLat ==
    /\ call.pc = "call"
    /\ call.fn = "convert_lonlat"
    /\ call' = [call EXCEPT !.pc = "ret", !.ret = <<convert_lonlat(call.arg)>>]
    /\ UNCHANGED decodeVars

\* self.rainflag('{:08b}'.format(ord(f.read(1)))) on the byte call.arg
CallRainflag ==
    /\ call.pc = "call"
    /\ call.fn = "rainflag"
    /\ call' = [call EXCEPT !.pc = "ret", !.ret = <<rainflag(bin8(call.arg))>>]
    /\ UNCHANGED decodeVars

\* read_hkd, the decoding of a status word that was unpacked with '<I'
DecodeSts ==
    /\ call.pc = "call"
    /\ call.fn = "hkd_sts"
    /\ call' = [call EXCEPT !.pc = "ret", !.ret = <<hkd_sts_decode(call.arg)>>]
    /\ UNCHANGED decodeVars

\* read_hkd, the decoding of a quality word that was unpacked with '<I'
DecodeQlt ==
    /\ call.pc = "call"
    /\ call.fn = "hkd_qlt"
    /\ call' = [call EXCEPT !.pc = "ret", !.ret = <<hkd_qlt_decode(call.arg)>>]
    /\ UNCHANGED decodeVars

\* read_blb, the decoding of the rain flag and mode byte call.arg
DecodeRainMode ==
    /\ call.pc = "call"
    /\ call.fn = "blb_rainmode"
    /\ call' = [call EXCEPT !.pc = "ret", !.ret = <<blb_rainmode(bin8(call.arg))>>]
    /\ UNCHANGED decodeVars

NextCodec ==
    CallAng \/ CallLonLat \/ CallRainflag \/ DecodeSts \/ DecodeQlt \/ DecodeRainMode

SpecCodec == InitCodec /\ [][NextCodec]_vars

AngReturned == call.fn = "ang_to_zen_azm" /\ call.pc = "ret"

LonLatReturned == call.fn = "convert_lonlat" /\ call.pc = "ret"

RainflagReturned == call.fn = "rainflag" /\ call.pc = "ret"

RainModeDecoded == call.fn = "blb_rainmode" /\ call.pc = "ret"

StsDecoded == call.fn = "hkd_sts" /\ call.pc = "ret"

QltDecoded == call.fn = "hkd_qlt" /\ call.pc = "ret"

-----------------------------------------------------------------------------
(* Two calls of a reader whose steps are interleaved, after one call that   *)
(* runs alone.  A call owns its file object and its local variables; the    *)
(* variables of the module hold those of the call that is running, and      *)
(* `call' holds those of the call that is suspended (call.ret[1]) and the   *)
(* outcome of the call that ran alone (call.ret[2]).                        *)

TwoN == 1

TwoCut == 1

\* a file of every format with TwoN samples, one element on every axis and
\* every data group of HKD recorded
RichParams(f) ==
    [code |-> CASE f = "MET" -> met_code_old + 1 [] f = "BLH" -> blh_code
                [] f = "LV0" -> lv0_code [] OTHER -> 0,
     n    |-> TwoN,
     c1   |-> IF AxisFields(f)[1] = "" THEN 0 ELSE 1,
     c2   |-> IF AxisFields(f)[2] = "" THEN 0 ELSE 1,
     sel  |-> IF f = "HKD" THEN 126 ELSE 0,
     w    |-> 16843009]

TwoFile(f, cut) ==
    LET header == SeqBytes(f, Reader(f).header, 1, RichParams(f))
        sample == SeqBytes(f, Reader(f).body, 1, RichParams(f))
        full   == header \o Repeat(sample, TwoN)
    IN  SubSeq(full, 1, Len(full) - cut)

\* the files decoded: complete, and cut short by TwoCut bytes
TwoInputs == {<<f, TwoFile(f, c)>> : f \in Formats, c \in {0, TwoCut}}

\* the files of the second call when it does not decode the file of the first
Partners == {<<"LWP", TwoFile("LWP", 0)>>, <<"HKD", TwoFile("HKD", TwoCut)>>}

\* the file object and the local variables of the running call
Ctx ==
    [fmt |-> fmt, buf |-> buf, off |-> off, pc |-> pc, ip |-> ip, i |-> i,
     hdr |-> hdr, ds |-> ds, err |-> err, short |-> short]

\* those of a call that has just opened its file
InitCtx(f, b) ==
    [fmt |-> f, buf |-> b, off |-> 0, pc |-> "header", ip |-> 1, i |-> 0,
     hdr |-> <<>>, ds |-> [v \in Reader(f).init |-> PyList(<<>>)],
     err |-> NoError, short |-> NoShort]

\* the call with the variables c runs next
Load(c) ==
    /\ fmt' = c.fmt /\ buf' = c.buf /\ off' = c.off /\ pc' = c.pc /\ ip' = c.ip
    /\ i' = c.i /\ hdr' = c.hdr /\ ds' = c.ds /\ err' = c.err /\ short' = c.short

Finished(c) == c.pc \in {"done", "failed"}

InitTwo ==
    \E x \in TwoInputs : \E y \in {x} \cup Partners :
       /\ fmt = x[1]
       /\ buf = x[2]
       /\ off = 0
       /\ pc = "header"
       /\ ip = 1
       /\ i = 0
       /\ hdr = <<>>
       /\ ds = [v \in Reader(fmt).init |-> PyList(<<>>)]
       /\ err = NoError
       /\ short = NoShort
       /\ call = [fn |-> "read", arg |-> 0, pc |-> "alone",
                  ret |-> <<InitCtx(y[1], y[2])>>]

\* the call that ran alone has ended; the first of the two calls opens the
\* same file
StartTwo ==
    /\ call.fn = "read"
    /\ call.pc = "alone"
    /\ Finished(Ctx)
    /\ Load(InitCtx(fmt, buf))
    /\ call' = [call EXCEPT !.arg = 1, !.pc = "two", !.ret = <<call.ret[1], Ctx>>]

\* the running call is suspended between two of its statements and the
\* other call goes on
Switch ==
    /\ call.fn = "read"
    /\ call.pc = "two"
    /\ Load(call.ret[1])
    /\ call' = [call EXCEPT !.arg = 3 - call.arg, !.ret = <<Ctx, call.ret[2]>>]

NextTwo == Next \/ StartTwo \/ Switch

SpecTwo == InitTwo /\ [][NextTwo]_vars

\* the variables of the first and of the second of the two calls
Call1 == IF call.arg = 1 THEN Ctx ELSE call.ret[1]

Call2 == IF call.arg = 2 THEN Ctx ELSE call.ret[1]

Alone == call.ret[2]

TwoCalls == call.fn = "read" /\ call.pc = "two"

-----------------------------------------------------------------------------
(* The readers: claims C1 to C6, checked under Spec. *)

\* the lists and the matrices a statement of the sample loop extends
ListVars(ins) ==
    CASE ins.op \in {"time", "rf", "app", "app_ang", "blb_rf"} -> {ins.v}
      [] ins.op = "hkd_gps" -> {"hkd_lon", "hkd_lat"}
      [] ins.op \in {"hkd_fsh", "hkd_qlt", "hkd_sts"} -> {ins.op}
      [] ins.op = "lv0_slave" -> {"lv0_tambslv", "lv0_dflagslv"}
      [] OTHER -> {}

MatrixVars(ins) ==
    CASE ins.op \in {"col", "blb_dat"} -> {ins.v}
      [] ins.op \in {"hkd_amb", "hkd_sta"} -> {ins.op}
      [] OTHER -> {}

SampleLists(f) == UNION {ListVars(Reader(f).body[k]) : k \in DOMAIN Reader(f).body}

SampleMatrices(f) == UNION {MatrixVars(Reader(f).body[k]) : k \in DOMAIN Reader(f).body}

\* the sample count the header declares
DeclaredN == hdr[Reader(fmt).n]

\* the sample slots of a returned value: the columns of a matrix, the
\* elements of a list
Slots(x) == IF IsArray(x) THEN x.array ELSE [j \in 1..Len(Elems(x)) |-> <<Elems(x)[j]>>]

\* C1: for every format except ABSCAL.HIS and a header count n >= 1, a call
\* that returns has n elements in every per-sample list and n columns in every
\* per-sample matrix other than blb_dat.
C1_SampleCountExact ==
    (Returned /\ fmt # "HIS" /\ DeclaredN >= 1) =>
        /\ \A v \in SampleLists(fmt) : Len(ds[v].list) = DeclaredN
        /\ \A v \in SampleMatrices(fmt) \ {"blb_dat"} :
               IsArray(ds[v]) /\ Len(ds[v].array) = DeclaredN

\* C2: a call that returns has run the sample loop for all n declared
\* samples, and its per-sample lists all have n elements; a loop that stops
\* early never leads to a return.
C2_ReturnsOnlyComplete ==
    (Returned /\ DeclaredN >= 0) =>
        /\ i = DeclaredN
        /\ \A v \in SampleLists(fmt) : Len(ds[v].list) = DeclaredN

\* the exceptions a read past the end of the file raises
TruncationErrors == {"struct.error", "TypeError"}

\* C3: when the header declares n >= 1 samples and the file holds fewer bytes
\* than the header and the n samples take, the call fails at the first read
\* that asks for bytes beyond the end of the file, with the error of that
\* read, and nothing is returned.
C3_TruncationFailsAtFirstShortRead ==
    /\ (short # NoShort /\ Reader(fmt).n \in DOMAIN hdr /\ DeclaredN >= 1) =>
           /\ Failed
           /\ err.kind \in TruncationErrors
           /\ err.off = short[1]
    /\ Returned => i >= DeclaredN

\* the fields of the header that size a loop or a read
CountFields(f) == ({Reader(f).n, AxisFields(f)[1], AxisFields(f)[2]} \ {""}) \ HisLists

InvalidCount(k) == k < 0 \/ k >= HugeCount

\* C4: when a count of the header is negative or at least 10,000,000, the
\* call reads no sample and returns nothing.
C4_InvalidCountFails ==
    \A v \in CountFields(fmt) \cap DOMAIN hdr :
        InvalidCount(hdr[v]) => pc \notin {"body", "done"}

\* the code the comments of a reader give for its file
RecognisedCodes(f) ==
    CASE f = "BLH" -> {blh_code} [] f = "LV0" -> {lv0_code} [] OTHER -> {}

\* C5: a file whose first 4 bytes are not a code of its format is rejected:
\* no sample is read and nothing is returned.  Checked for the formats whose
\* code the source states (BLH, LV0).
C5_UnknownCodeFails ==
    LET code == Reader(fmt).header[1].v
    IN  (fmt \in {"BLH", "LV0"} /\ code \in DOMAIN hdr /\ hdr[code] \notin RecognisedCodes(fmt))
            => pc \notin {"body", "done"}

\* the six gated groups of read_hkd: the selector digit and the variables
HkdGroups ==
    {<<1, "hkd_lon">>, <<1, "hkd_lat">>, <<2, "hkd_amb">>, <<3, "hkd_sta">>,
     <<4, "hkd_fsh">>, <<5, "hkd_qlt">>, <<6, "hkd_sts">>}

IsNone(x) == "none" \in DOMAIN x

\* a slot is missing when it holds None only: [None] in a list, a column of
\* None in a matrix
IsMissing(slot) ==
    \A j \in 1..Len(slot) :
        \/ IsNone(slot[j])
        \/ IsList(slot[j]) /\ Len(slot[j].list) = 1 /\ IsNone(slot[j].list[1])

\* a slot is decoded when it holds no None
IsDecoded(slot) ==
    \A j \in 1..Len(slot) :
        /\ ~IsNone(slot[j])
        /\ IsList(slot[j]) => \A m \in 1..Len(slot[j].list) : ~IsNone(slot[j].list[m])

\* C6: in a returned HKD dataset every gated group has n sample slots, all of
\* them missing when the selector digit of the group is 0 and all of them
\* decoded when it is 1.
C6_GatedGroupsAligned ==
    (Returned /\ fmt = "HKD") =>
        \A g \in HkdGroups :
            LET slots == Slots(ds[g[2]])
            IN  /\ Len(slots) = Len(ds["t_obs"].list)
                /\ Len(slots) = DeclaredN
                /\ \A j \in 1..Len(slots) :
                       IF Select(g[1]) = 0 THEN IsMissing(slots[j]) ELSE IsDecoded(slots[j])

-----------------------------------------------------------------------------
(* The angle codec: claims C7 to C10, checked under SpecCodec. *)

\* C7: ang_to_zen_azm returns the five results its docstring lists, and which
\* branch computes a result is decided by the two thresholds alone: above
\* 1000000 the offset branch (azimuth kept to 4 significant figures), else
\* below 100 the identity branch with azimuth 0, else the modulo-100 branch.
C7_ExamplesAndThresholds ==
    AngReturned =>
      LET a == call.arg
          zen == call.ret[1]
          azm == call.ret[2]
      IN  /\ a = 12674385 => call.ret = <<1385, 2674000>>
          /\ a = 2674385 => call.ret = <<385, 2674000>>
          /\ a = 900 => call.ret = <<900, 0>>
          /\ a = 5900 => call.ret = <<900, 5000>>
          /\ a = 15900 => call.ret = <<900, 15000>>
          /\ IF a > 10000000
             THEN /\ azm = format_4g(a - 10000000)
                  /\ zen = a - 10000000 - azm + 1000
             ELSE IF a < 1000
                  THEN zen = a /\ azm = 0
                  ELSE zen = a % 1000 /\ zen + azm = a

C7_Witness ==
    AngReturned /\ call.arg = 12674385 /\ call.ret = <<1385, 2674000>>

\* C8 as amended: for an encoded angle v with 100 <= v <= 1000000 and
\* k = floor(v / 100), ang_to_zen_azm returns zenith v - 100 k and azimuth
\* (v - zenith) / 1000, which is k / 10.
C8_ModuloBranch ==
    (AngReturned /\ call.arg >= 1000 /\ call.arg <= 10000000) =>
      LET k == call.arg \div 1000
      IN  call.ret = <<call.arg - 1000 * k, 1000 * k>>

C8_Witness ==
    AngReturned /\ call.arg = 5900 /\ call.ret = <<900, 5000>>

\* C8 as stated: for 100 <= v <= 1000000 the azimuth returned is k itself.
C8_AzimuthIsK ==
    (AngReturned /\ call.arg >= 1000 /\ call.arg <= 10000000) =>
      LET k == call.arg \div 1000
      IN  call.ret = <<call.arg - 1000 * k, 10000 * k>>

\* C9: for -90 <= el < 100 and 0 <= az < 360, decoding the encoded value
\* sign(el) * (|el| + 1000 az) returns (el, az).
C9_RoundTripBelowOffset ==
    \A el \in ElTenths, az \in AzTenths :
      (el < 1000 /\ AngReturned /\ call.arg = AngEncode(el, az))
        => call.ret = <<el, 1000 * az>>

\* C10: for 100 <= el < 200 and 0 <= az < 360, decoding the encoded value
\* 1000000 + (el - 100) + 1000 az returns (el, az).
C10_RoundTripAboveOffset ==
    \A el \in ElTenths, az \in AzTenths :
      (el >= 1000 /\ AngReturned /\ call.arg = AngEncode(el, az))
        => call.ret = <<el, 1000 * az>>

-----------------------------------------------------------------------------
(* The other codecs: claims C11 to C14, checked under SpecCodec. *)

\* a result r (in 1/360000 degree) is within 1e-6 degree of e millionths of a
\* degree: |r/360000 - e/1000000| <= 1/1000000
Within1e6(r, e) == Abs(25 * r - 9 * e) <= 9

\* C11: convert_lonlat(x) is sign(x) * (D + (|x| - 100 D) / 60) with
\* D = floor(|x| / 100); it is odd; and it gives -122.758333, -33.354167 and
\* -33.508333 (within 1e-6) for -12245.50, -3321.25 and -3330.50.
C11_LonLatDecode ==
    LonLatReturned =>
      LET x  == call.arg
          r  == call.ret[1]
          sg == IF x < 0 THEN -1 ELSE 1
          D  == Abs(x) \div 10000
      IN  /\ r = sg * (D * 360000 + (Abs(x) - 10000 * D) * 60)
          /\ r = -convert_lonlat(-x)
          /\ x = -1224550 => Within1e6(r, -122758333)
          /\ x = -332125 => Within1e6(r, -33354167)
          /\ x = -333050 => Within1e6(r, -33508333)

C11_Witness ==
    LonLatReturned /\ call.arg = -1224550 /\ call.ret = <<-44193000>>

\* C12: for every byte b the rain flag is [b & 1, (b >> 1) & 3, (b >> 3) & 3];
\* the three most significant bits of b do not affect it; 0x00 gives
\* [0, 0, 0] and 0xFF gives [1, 3, 3].
C12_RainflagBits ==
    RainflagReturned =>
      LET b == call.arg
          r == call.ret[1]
      IN  /\ r = PyList(<<PyInt(b % 2), PyInt((b \div 2) % 4), PyInt((b \div 8) % 4)>>)
          /\ \A m \in 0..7 : r = rainflag(bin8((b % 32) + 32 * m))
          /\ b = 0 => r = PyList(<<PyInt(0), PyInt(0), PyInt(0)>>)
          /\ b = 255 => r = PyList(<<PyInt(1), PyInt(3), PyInt(3)>>)

C12_Witness ==
    /\ RainflagReturned
    /\ call.arg = 255
    /\ call.ret = <<PyList(<<PyInt(1), PyInt(3), PyInt(3)>>)>>

\* the two-bit value of bits k and k + 1 of w
Bits2(w, k) == (w \div (2 ^ k)) % 4

\* the status list laid out by the bit map of the comment above the decoding
\* (documented Bit k is bit k - 1): 14 channel flags, bits 16 to 23 one by
\* one, the two thermal stabilities as two-bit values, bits 28 to 30
StatusBitMap(w) ==
    [k \in 1..7 |-> Bit(w, k - 1)] \o [k \in 1..7 |-> Bit(w, k + 7)]
      \o [k \in 1..8 |-> Bit(w, k + 15)]
      \o <<Bits2(w, 24), Bits2(w, 26)>>
      \o [k \in 1..3 |-> Bit(w, k + 27)]

\* C13: the decoded status list of every status word follows the documented
\* bit map: channel flags at bits 0..6 and 8..14, single flags at bits 16..23,
\* receiver 1 and 2 thermal stability as the two-bit values of bits 24..25 and
\* 26..27, single flags at bits 28..30.
C13_StatusFollowsBitMap ==
    StsDecoded =>
      LET m == StatusBitMap(call.arg)
      IN  call.ret[1] = PyList([k \in 1..Len(m) |-> PyInt(m[k])])

\* w with bit k inverted
Flip(w, k) == IF Bit(w, k) = 1 THEN w - 2 ^ k ELSE w + 2 ^ k

\* C14: the 16 decoded quality entries are two-bit values, for each of the
\* eight 4-bit groups a level xx from its two low bits and a reason yy from
\* its two high bits, and the list depends on every bit of the word.
C14_QualityTwoBitEntries ==
    QltDecoded =>
      LET w == call.arg
      IN  /\ call.ret[1] = PyList([k \in 1..16 |-> PyInt(Bits2(w, 2 * (k - 1)))])
          /\ \A k \in 0..30 : hkd_qlt_decode(Flip(w, k)) # call.ret[1]

-----------------------------------------------------------------------------
(* The readers: claims C15 to C18, checked under Spec. *)

\* read_blb: the bytes before the first sample (code, n, freqn, two bounds
\* per channel, time reference, one frequency per channel, angn, the angles)
\* and the bytes of one sample (time, rain flag, freqn vectors of angn + 1)
BlbHead == 20 + 12 * hdr["blb_freqn"] + 4 * hdr["blb_angn"]

BlbSample == 5 + 4 * hdr["blb_freqn"] * (hdr["blb_angn"] + 1)

\* the payload vectors of the stream, sample by sample and channel by channel
BlbVectors ==
    [k \in 1..(hdr["blb_n"] * hdr["blb_freqn"]) |->
       Items("f", BlbHead + BlbSample * ((k - 1) \div hdr["blb_freqn"]) + 5
                    + 4 * (hdr["blb_angn"] + 1) * ((k - 1) % hdr["blb_freqn"]),
             hdr["blb_angn"] + 1)]

\* C15: a BLB call that returns has in blb_dat all n * freqn payload vectors
\* of angn + 1 floats of the stream, in stream order.
C15_BlbKeepsEveryVector ==
    (Returned /\ fmt = "BLB") => ds["blb_dat"] = PyArray(BlbVectors)

\* the formats whose header count sizes the payload vector of a sample, and
\* the matrix that collects the payload vectors
SizedFormats == {"ATN", "BRT", "TPC", "TPB", "HPC", "LPR", "IRT", "LV0"}

Payload(f) ==
    CASE f = "ATN" -> "atn_dat" [] f = "BRT" -> "brt_dat" [] f = "TPC" -> "tpc_dat"
      [] f = "TPB" -> "tpb_dat" [] f = "HPC" -> "hpc_dat" [] f = "LPR" -> "lpr_dat"
      [] f = "IRT" -> "irt_dat" [] f = "LV0" -> "lv0_ud"

\* the payload vectors collected so far: none while the matrix is still the
\* empty list it was initialised with
PayloadVectors ==
    IF IsArray(ds[Payload(fmt)]) THEN ds[Payload(fmt)].array ELSE <<>>

\* C16: in ATN, BRT, TPC, TPB, HPC, LPR, IRT and LV0 the payload vector of
\* every sample of a returned call has as many 4-byte elements as the axis
\* count of the header (a count that is not negative).
C16_PayloadSizedByCount ==
    (Returned /\ fmt \in SizedFormats /\ hdr[AxisFields(fmt)[1]] >= 0) =>
      \A k \in 1..Len(PayloadVectors) :
         Len(PayloadVectors[k]) = hdr[AxisFields(fmt)[1]]

\* read_met: the offset of the first bound, by the code alone
MetBase == IF hdr["met_code"] = met_code_old THEN 8 ELSE 9

\* C17: in MET the code alone selects the header layout: with code 599658943
\* no sensor byte is consumed, the sensor count is 0 and the first bound is
\* read at offset 8; with any other code the byte at offset 8 is the sensor
\* count and the first bound is read at offset 9; after that both layouts
\* are the same: 28 bytes of bounds and time reference, then 17 bytes a sample.
C17_MetLayoutByCode ==
    fmt = "MET" =>
      /\ (pc = "header" /\ Cur.v = "met_minp") =>
            /\ off = MetBase
            /\ hdr["met_nsen"] = IF hdr["met_code"] = met_code_old THEN PyInt(0)
                                 ELSE PyBytes(<<buf[9]>>)
      /\ (pc = "body" /\ ip = 1) => off = MetBase + 28 + 17 * i
      /\ Returned => off = MetBase + 28 + 17 * hdr["met_n"]

C17_Witness ==
    /\ fmt = "MET"
    /\ Returned
    /\ hdr["met_code"] = met_code_old
    /\ hdr["met_nsen"] = PyInt(0)
    /\ hdr["met_n"] = 2
    /\ off = 70

\* C18: within one call the position in the file only moves forward, and
\* never beyond the end of the file: every statement reads from where the
\* statement before it stopped, so that no byte is read twice.
C18_CursorForwardOnly == [][off <= off' /\ off' <= Len(buf)]_vars

C18_Witness ==
    /\ fmt = "BRT"
    /\ Returned
    /\ hdr["brt_n"] = 2
    /\ hdr["brt_freqn"] = 2
    /\ off = Len(buf)
    /\ off = 74

-----------------------------------------------------------------------------
(* Two calls: claims C19 and C20, checked under SpecTwo. *)

C20_CallsShareNothing ==
    /\ [](TwoCalls =>
            /\ Finished(Call1) => Call1 = Alone
            /\ (Finished(Call2) /\ Call2.fmt = Alone.fmt /\ Call2.buf = Alone.buf)
                  => Call2 = Alone)
    /\ [][(TwoCalls /\ call.arg = call'.arg) => call' = call]_vars

C20_Witness ==
    /\ TwoCalls
    /\ Call1.fmt = "BLB" /\ Call1.pc = "done"
    /\ Call2.fmt = "HKD" /\ Call2.pc = "failed"
    /\ Call1 = Alone

-----------------------------------------------------------------------------
(* The readers: claims C21 to C29. *)

\* the call has ended on a file whose header, complete and with counts that
\* are not negative, declares no sample: no read was short and no count of
\* the header is negative
EndedOnEmptyFile ==
    /\ pc \in {"done", "failed"}
    /\ Reader(fmt).n \in DOMAIN hdr
    /\ DeclaredN = 0
    /\ short = NoShort
    /\ \A v \in CountFields(fmt) \cap DOMAIN hdr : hdr[v] >= 0

\* C21: a file with a complete header that declares n = 0 decodes: the call
\* returns, and every per-sample list and per-sample matrix is empty.
C21_EmptyFileDecodes ==
    EndedOnEmptyFile =>
        /\ Returned
        /\ \A v \in SampleLists(fmt) : Len(ds[v].list) = 0
        /\ \A v \in SampleMatrices(fmt) : v \in DOMAIN ds /\ Len(Slots(ds[v])) = 0

\* the number the documentation gives the group a statement of the HKD
\* sample record reads
HkdGroupOf(op) ==
    CASE op = "hkd_gps" -> 1 [] op = "hkd_amb" -> 2 [] op = "hkd_sta" -> 3
      [] op = "hkd_fsh" -> 4 [] op = "hkd_qlt" -> 5 [] op = "hkd_sts" -> 6

HkdGroupOps == {"hkd_gps", "hkd_amb", "hkd_sta", "hkd_fsh", "hkd_qlt", "hkd_sts"}

\* the selector byte of an HKD file: the byte after code, n and time reference
HkdSelectByte == buf[13]

\* C22: in HKD the statement of group g (1 GPS, 2 temperatures, 3 stability,
\* 4 flash memory, 5 quality, 6 status) reads bytes of the sample record if
\* and only if bit g - 1 of the selector byte, counted from the least
\* significant bit, is 1; the three bytes after the selector byte are skipped.
C22_GroupsGatedFromLsb ==
    [][/\ (fmt = "HKD" /\ pc = "body" /\ Cur.op \in HkdGroupOps /\ pc' # "failed") =>
            ((off' > off) <=> (Bit(HkdSelectByte, HkdGroupOf(Cur.op) - 1) = 1))
       /\ (fmt = "HKD" /\ At("hkd_select") /\ Avail >= 4) => off' = off + 4]_vars

\* the bytes of an HKD sample record by the selector list s = hkd_select:
\* 5 + 8 s[1] + 16 s[2] + 8 s[3] + 4 s[4] + 4 s[5] + 4 s[6]
HkdRecordSize ==
    5 + 8 * Select(1) + 16 * Select(2) + 8 * Select(3) + 4 * Select(4) + 4 * Select(5)
      + 4 * Select(6)

\* C23: in HKD every sample record takes HkdRecordSize bytes, a call that
\* returns has read 16 + n * HkdRecordSize bytes, and s[0] and s[7] change
\* nothing: with s[1] to s[6] all 0 every group of every sample is missing,
\* whatever s[0] and s[7] are.
C23_HkdRecordSize ==
    (fmt = "HKD" /\ "hkd_select" \in DOMAIN ds) =>
        /\ (pc = "loop" /\ i >= 1) => off = 16 + i * HkdRecordSize
        /\ Returned => off = 16 + hdr["hkd_n"] * HkdRecordSize
        /\ (Returned /\ HkdRecordSize = 5) =>
              \A v \in {"hkd_lon", "hkd_lat", "hkd_fsh", "hkd_qlt", "hkd_sts"} :
                 ds[v] = PyList([j \in 1..hdr["hkd_n"] |-> PyList(Nones(1))])

\* C24: for every byte b the rain and mode decode of BLB is
\* [(b >> 7) & 1, (b >> 1) & 3]; the bits 0x40, 0x20, 0x10, 0x08 and 0x01 of
\* b do not affect it.  Checked under SpecCodec.
C24_BlbRainMode ==
    RainModeDecoded =>
      LET b == call.arg
          r == call.ret[1]
      IN  /\ r = PyList(<<PyInt((b \div 128) % 2), PyInt((b \div 2) % 4)>>)
          /\ \A m \in 0..15, l \in 0..1 :
                r = blb_rainmode(bin8(128 * (b \div 128) + 8 * m + (((b \div 2) % 4) * 2) + l))

C24_Witness ==
    /\ RainModeDecoded
    /\ call.arg = 132
    /\ call.ret = <<PyList(<<PyInt(1), PyInt(2)>>)>>

\* the outcome <<served, cursor, values>> of reading k values of 4 bytes at
\* the cursor with one call, as read_lv0 reads its frequency tables:
\* x = struct.unpack('<{k}f', f.read(4 * k))
BatchRead(ty, k) ==
    IF k < 0 \/ Avail < 4 * k THEN <<FALSE, 0, <<>>>>
    ELSE <<TRUE, off + 4 * k, Items(ty, off, k)>>

\* the outcome of reading them one by one, as read_atn reads its tables:
\* for vname in range(k): x.append(struct.unpack('<f', f.read(4))[0])
LoopRead(ty, k) ==
    IF LoopOk(Max(k, 0))
    THEN <<TRUE, off + 4 * Max(k, 0), Items(ty, off, Max(k, 0))>>
    ELSE <<FALSE, 0, <<>>>>

\* C25: wherever a reader is about to read an array of k floats, k being the
\* count its header holds, the batch read and the one-by-one read of k floats
\* at that cursor have the same outcome: the same values with the cursor 4 * k
\* bytes further, or a failure in both.
C25_BatchEqualsLoop ==
    (At("batch") \/ At("list")) =>
        BatchRead(Cur.ty, Count(Cur)) = LoopRead(Cur.ty, Count(Cur))

------------------------------------------------------------------------------
(* The argument tests that open every routine.  A call is made with a     *)
(* value of any type; a float argument is given in the unit of its codec  *)
(* (tenths of a degree, hundredths of a minute), an int argument by its   *)
(* value, a string of binary digits by its digits, a path by its name.    *)

ArgFloat(x) == [float |-> x]

PyStr(s) == [str |-> s]

PyPath(p) == [path |-> p]

IsFloat(x) == "float" \in DOMAIN x

IsInt(x) == "int" \in DOMAIN x

IsStr(x) == "str" \in DOMAIN x

IsPath(x) == "path" \in DOMAIN x

\* the paths that name a regular file
ExistingFiles == {"a.LWP", "a.HKD"}

\* os.path.isfile(f)
isfile(f) == f.path \in ExistingFiles

ReaderNames == {"read_lwp", "read_hkd", "read_lv0"}

Paths == {"a.LWP", "a.HKD", "missing.LWP", "dir"}

\* the strings and lists handed to rainflag: '{:08b}' of a byte, the same
\* with one digit more or one digit less, and the list of its eight digits
RainflagArgs ==
    {PyStr(bin8(b)) : b \in RainBytes}
      \cup {PyStr(bin8(b) \o <<d>>) : b \in {0, 5, 21, 255}, d \in {0, 1}}
      \cup {PyStr(SubSeq(bin8(b), 1, 7)) : b \in {0, 5, 21, 255}}
      \cup {PyList(bin8(b)) : b \in {0, 5, 21, 255}}

InitArgs ==
    /\ IdleDecode
    /\ call \in {[fn |-> "ang_to_zen_azm", arg |-> a, pc |-> "call", ret |-> <<>>] :
                   a \in {ArgFloat(x) : x \in AngExamples}
                          \cup {PyInt(x) : x \in {1267438, 267438, 90, 590}}
                          \cup {PyNone}}
               \cup {[fn |-> "convert_lonlat", arg |-> a, pc |-> "call", ret |-> <<>>] :
                       a \in {ArgFloat(x) : x \in LonLatExamples}
                              \cup {PyInt(x) : x \in {-12245, -3321, 3330}}
                              \cup {PyNone}}
               \cup {[fn |-> "rainflag", arg |-> a, pc |-> "call", ret |-> <<>>] :
                       a \in RainflagArgs}
               \cup {[fn |-> r, arg |-> PyPath(p), pc |-> "call", ret |-> <<>>] :
                       r \in ReaderNames, p \in Paths}

\* the test whose failure prints a warning that ends in 'Returnning...'
ArgValid(fn, x) ==
    CASE fn \in {"ang_to_zen_azm", "convert_lonlat"} -> IsFloat(x)  \* isinstance(x, float)
      [] fn = "rainflag" -> IsStr(x) /\ Len(x.str) = 8               \* isinstance(data, str), len(data) != 8
      [] OTHER -> isfile(x)                                         \* os.path.isfile(f)

\* if not isinstance(...): print('... Returnning...'): the test prints and
\* the routine goes on to the statement after it
CheckArg ==
    /\ call.pc = "call"
    /\ call' = [call EXCEPT !.pc = IF ArgValid(call.fn, call.arg) THEN "checked" ELSE "warned"]
    /\ UNCHANGED decodeVars

RaiseArg(kind) ==
    /\ call' = [call EXCEPT !.pc = "raised"]
    /\ err' = [kind |-> kind, off |-> 0]
    /\ UNCHANGED <<fmt, buf, off, pc, ip, i, hdr, ds, short>>

ReturnArg(x) ==
    /\ call' = [call EXCEPT !.pc = "ret", !.ret = x]
    /\ UNCHANGED decodeVars

\* the body of ang_to_zen_azm: arithmetic on a float or an int, a TypeError
\* at ang / 1000000.0 on any other value
RunAng ==
    /\ call.pc \in {"checked", "warned"}
    /\ call.fn = "ang_to_zen_azm"
    /\ IF IsFloat(call.arg) THEN ReturnArg(ang_to_zen_azm(call.arg.float))
       ELSE IF IsInt(call.arg) THEN ReturnArg(ang_to_zen_azm(10 * call.arg.int))
       ELSE RaiseArg("TypeError")

\* the body of convert_lonlat: a TypeError at data < 0 on a value that is no
\* number
RunLonLat ==
    /\ call.pc \in {"checked", "warned"}
    /\ call.fn = "convert_lonlat"
    /\ IF IsFloat(call.arg) THEN ReturnArg(<<convert_lonlat(call.arg.float)>>)
       ELSE IF IsInt(call.arg) THEN ReturnArg(<<convert_lonlat(100 * call.arg.int)>>)
       ELSE RaiseArg("TypeError")

\* the body of rainflag indexes data[7], data[5], data[6], data[3], data[4]:
\* an IndexError on fewer than 8 items
RunRainflag ==
    /\ call.pc \in {"checked", "warned"}
    /\ call.fn = "rainflag"
    /\ LET data == IF IsStr(call.arg) THEN call.arg.str ELSE call.arg.list
       IN  IF Len(data) >= 8 THEN ReturnArg(<<rainflag(data)>>)
           ELSE RaiseArg("IndexError")

\* with open(f, "rb") as f: the file is opened and read, or open raises
OpenFile ==
    /\ call.pc \in {"checked", "warned"}
    /\ call.fn \in ReaderNames
    /\ IF isfile(call.arg)
       THEN /\ call' = [call EXCEPT !.pc = "opened"]
            /\ UNCHANGED decodeVars
       ELSE RaiseArg(IF call.arg.path = "dir" THEN "IsADirectoryError"
                     ELSE "FileNotFoundError")

NextArgs == CheckArg \/ RunAng \/ RunLonLat \/ RunRainflag \/ OpenFile

SpecArgs == InitArgs /\ [][NextArgs]_vars

\* C26: a routine that has printed its 'Returnning...' warning, for a path
\* that names no file or an argument of the wrong type or length, ends
\* without a decoded value.
C26_WarningEndsTheCall ==
    [][call.pc = "warned" => call'.ret = <<>>]_vars

------------------------------------------------------------------------------
(* The sample time.  Files of every format whose sample times hold a      *)
(* chosen word, complete or cut short by TwoCut bytes.                    *)

TimeWords ==
    {<<0, 0, 0, 0>>, <<1, 1, 1, 1>>, <<128, 81, 1, 0>>, <<127, 81, 1, 0>>,
     <<255, 255, 255, 127>>, <<0, 0, 0, 128>>, <<1, 0, 0, 128>>, <<128, 174, 254, 255>>,
     <<255, 255, 255, 255>>}

\* the offsets in the file of the sample times of its first sample
TimeOffsets(f) ==
    LET p      == RichParams(f)
        body   == Reader(f).body
        header == SeqBytes(f, Reader(f).header, 1, p)
        sample == SeqBytes(f, body, 1, p)
    IN  {Len(header) + Len(sample) - Len(SeqBytes(f, body, k, p)) :
           k \in {j \in 1..Len(body) : body[j].op = "time"}}

\* the bytes b with the word tw at every offset of offs
Patch(b, offs, tw) ==
    [k \in 1..Len(b) |->
       IF \E o \in offs : k - o \in 1..4
       THEN tw[k - CHOOSE o \in offs : k - o \in 1..4]
       ELSE b[k]]

TimeFile(f, tw, cut) == Patch(TwoFile(f, cut), TimeOffsets(f), tw)

InitTime ==
    /\ fmt \in Formats
    /\ buf \in {TimeFile(fmt, tw, c) : tw \in TimeWords, c \in {0, TwoCut}}
    /\ off = 0
    /\ pc = "header"
    /\ ip = 1
    /\ i = 0
    /\ hdr = <<>>
    /\ ds = [v \in Reader(fmt).init |-> PyList(<<>>)]
    /\ err = NoError
    /\ short = NoShort
    /\ call = NoCall

SpecTime == InitTime /\ [][Next]_vars

\* the instant t seconds from 2001-01-01T00:00:00
InstantOf(t) == PyDatetime(t \div 86400, t % 86400)

\* C27: in every format the time appended for a sample is the reference
\* instant plus the signed 32-bit little-endian value of the 4-byte word in
\* seconds, so a word with its top bit set gives an instant before the
\* reference.
C27_TimeWordSigned ==
    [][(At("time") /\ Avail >= 4) =>
          LET t == ds'[Cur.v].list[Len(ds'[Cur.v].list)]
          IN  /\ t = InstantOf(unpack_i(Word(off)))
              /\ Word(off)[4] >= 128 => t.days < 0]_vars

------------------------------------------------------------------------------
(* Bytes after the last sample.  A call decodes a complete file of 0 to   *)
(* TailN samples; when it has ended, a call decodes the same file with    *)
(* more bytes after its last sample.                                      *)

TailN == 2

TailParams(f, n) == [RichParams(f) EXCEPT !.n = n]

\* the header and n samples, nothing after them
ExactFile(f, n) ==
    SeqBytes(f, Reader(f).header, 1, TailParams(f, n))
      \o Repeat(SeqBytes(f, Reader(f).body, 1, TailParams(f, n)), n)

\* the bytes put after the last sample: one byte, one word, one more sample
Tails(f) == {<<7>>, <<1, 1, 1, 1>>, SeqBytes(f, Reader(f).body, 1, RichParams(f))}

InitTail ==
    \E f \in Formats, n \in 0..TailN : \E t \in Tails(f) :
       /\ fmt = f
       /\ buf = ExactFile(f, n)
       /\ off = 0
       /\ pc = "header"
       /\ ip = 1
       /\ i = 0
       /\ hdr = <<>>
       /\ ds = [v \in Reader(fmt).init |-> PyList(<<>>)]
       /\ err = NoError
       /\ short = NoShort
       /\ call = [fn |-> "read", arg |-> 0, pc |-> "exact",
                  ret |-> <<InitCtx(f, ExactFile(f, n) \o t)>>]

\* the call on the exact file has ended; the call on the longer file runs
StartTail ==
    /\ call.fn = "read"
    /\ call.pc = "exact"
    /\ Finished(Ctx)
    /\ Load(call.ret[1])
    /\ call' = [call EXCEPT !.pc = "tail", !.ret = <<Ctx>>]

NextTail == Next \/ StartTail

SpecTail == InitTail /\ [][NextTail]_vars

\* the call on the exact file, once the call on the longer file runs
Exact == call.ret[1]

\* the call on the longer file has ended after the call on the exact file
\* returned
TailEnded == call.pc = "tail" /\ Finished(Ctx) /\ Exact.pc = "done"

------------------------------------------------------------------------------
(* Termination.  Files whose header declares 0 to TailN samples or        *)
(* HugeCount samples and that hold no more than TailN of them, complete   *)
(* or cut short by up to MaxCut bytes.  The interpreter runs the          *)
(* statements of a call one after the other, without pause: weak fairness *)
(* of Next.                                                               *)

LiveFiles(f) ==
    {LET p    == TailParams(f, n)
         full == SeqBytes(f, Reader(f).header, 1, p)
                   \o Repeat(SeqBytes(f, Reader(f).body, 1, p), k)
     IN  SubSeq(full, 1, Len(full) - c) :
       n \in (0..TailN) \cup {HugeCount}, k \in 0..TailN, c \in 0..MaxCut}

InitLive ==
    /\ fmt \in Formats
    /\ buf \in LiveFiles(fmt)
    /\ off = 0
    /\ pc = "header"
    /\ ip = 1
    /\ i = 0
    /\ hdr = <<>>
    /\ ds = [v \in Reader(fmt).init |-> PyList(<<>>)]
    /\ err = NoError
    /\ short = NoShort
    /\ call = NoCall

SpecLive == InitLive /\ [][Next]_vars /\ WF_vars(Next)

\* the header has been read whole
InLoop == pc \in {"loop", "body", "return", "done"}

\* the bytes the header that was read takes in the file
HeaderLength ==
    LET field(v) == IF v \in DOMAIN hdr THEN hdr[v] ELSE 0
        p == [code |-> field(Reader(fmt).header[1].v),
              n    |-> DeclaredN,
              c1   |-> field(AxisFields(fmt)[1]),
              c2   |-> field(AxisFields(fmt)[2]),
              sel  |-> field("lv0_idslv"),
              w    |-> 0]
    IN  Min(Len(SeqBytes(fmt, Reader(fmt).header, 1, p)), Len(buf))

\* the iterations of the sample loop that have begun
Started == IF pc = "body" THEN i + 1 ELSE i

\* C29: every call ends, with a Dataset or with a failure; the first
\* statement of an iteration of the sample loop reads 4 bytes or fails, and
\* the iterations begun are at most floor(bytes after the header / 4) + 1,
\* whatever n the header declares.
C29_DecodeTerminates ==
    /\ <>(Returned \/ Failed)
    /\ [][(pc = "body" /\ ip = 1) => (pc' = "failed" \/ off' >= off + 4)]_vars
    /\ [](InLoop => /\ HeaderLength + 4 * i <= off
                    /\ Started <= (Len(buf) - HeaderLength) \div 4 + 1)

C29_Witness ==
    /\ Failed
    /\ fmt = "LWP"
    /\ DeclaredN = HugeCount
    /\ Len(buf) = 50
    /\ i = 2
    /\ err = [kind |-> "struct.error", off |-> 50]

------------------------------------------------------------------------------
(* MainFormSize.  write_MainFormSize followed by read_MainFormSize on the *)
(* file it wrote.  An unsigned 32-bit value is held by its four base-256  *)
(* digits, the least significant first; struct.pack('=I', x) writes them  *)
(* in the byte order of the host, which the code does not choose.         *)

PyU32(d) == [u32 |-> d]

ByteOrders == {"little", "big"}

MfsSizes ==
    {PyNone}
      \cup {PyU32(LE4(x)) : x \in {0, 1, 9, 768, 1024, 65535, 16909060, 2147483647}}
      \cup {PyU32(<<0, 0, 0, 128>>), PyU32(<<255, 255, 255, 255>>)}

\* what the file held before the call
MfsOldFiles == {<<>>, [k \in 1..16 |-> 7]}

\* not h: None and 0 are false
Falsy(x) == x = PyNone \/ x = PyU32(<<0, 0, 0, 0>>)

\* struct.pack('=I', x): native byte order, standard size
pack_native(x, order) ==
    IF order = "little" THEN x.u32 ELSE [k \in 1..4 |-> x.u32[5 - k]]

\* struct.unpack('<I', b)[0]
unpack_le(b) == PyU32(b)

InitMfs ==
    /\ IdleDecode
    /\ \E old \in MfsOldFiles, h \in MfsSizes, v \in MfsSizes, o \in ByteOrders :
          call = [fn |-> "write_MainFormSize",
                  arg |-> [f |-> old, h |-> h, v |-> v, byteorder |-> o],
                  pc |-> "call", ret |-> <<>>]

\* if not h: h = 1024; if not v: v = 768; fw = open(f, 'wb'); three writes
write_MainFormSize ==
    /\ call.fn = "write_MainFormSize"
    /\ call.pc = "call"
    /\ LET h == IF Falsy(call.arg.h) THEN PyU32(LE4(1024)) ELSE call.arg.h
           v == IF Falsy(call.arg.v) THEN PyU32(LE4(768)) ELSE call.arg.v
           o == call.arg.byteorder
       IN  call' = [call EXCEPT
                      !.fn = "read_MainFormSize",
                      !.arg.f = pack_native(PyU32(LE4(9)), o) \o pack_native(h, o)
                                  \o pack_native(v, o)]
    /\ UNCHANGED decodeVars

\* three reads of 4 bytes unpacked with '<I'; a read that gets fewer bytes
\* is a struct.error
read_MainFormSize ==
    /\ call.fn = "read_MainFormSize"
    /\ call.pc = "call"
    /\ LET b == call.arg.f
       IN  IF Len(b) >= 12
           THEN /\ call' = [call EXCEPT
                             !.pc = "ret",
                             !.ret = <<[mfs_code |-> unpack_le(SubSeq(b, 1, 4)),
                                        mfs_horz |-> unpack_le(SubSeq(b, 5, 8)),
                                        mfs_vert |-> unpack_le(SubSeq(b, 9, 12))]>>]
                /\ UNCHANGED decodeVars
           ELSE RaiseArg("struct.error")

NextMfs == write_MainFormSize \/ read_MainFormSize

SpecMfs == InitMfs /\ [][NextMfs]_vars

MfsRead == call.fn = "read_MainFormSize" /\ call.pc = "ret"

\* C30: read_MainFormSize of the file write_MainFormSize(f, h, v) wrote
\* returns code 9 and the sizes h and v, 1024 and 768 in place of a size that
\* is 0 or None, and the file holds 12 bytes.
C30_MainFormSizeRoundTrip ==
    MfsRead =>
        /\ call.ret[1].mfs_code = PyU32(<<9, 0, 0, 0>>)
        /\ call.ret[1].mfs_horz = IF Falsy(call.arg.h) THEN PyU32(<<0, 4, 0, 0>>) ELSE call.arg.h
        /\ call.ret[1].mfs_vert = IF Falsy(call.arg.v) THEN PyU32(<<0, 3, 0, 0>>) ELSE call.arg.v
        /\ Len(call.arg.f) = 12

=============================================================================
